---- MODULE Spec2Model ----
(***************************************************************************)
(* Playback reporter of the Qobuz plugin (qobuz_reporter.py): the          *)
(* state-change handler statement by statement, the delivery queue, the    *)
(* sender worker thread and shutdown, together with the client's track-URL *)
(* cache the payload builders read (qobuz.py).                             *)
(* Autoplay engine of the plugin (qobuz_autoplay.py): the mirror of the    *)
(* host play queue, the recommendation buffer and the batch fetch, the     *)
(* three handlers statement by statement on the threads of the host.       *)
(***************************************************************************)
EXTENDS Integers, Sequences, FiniteSets, TLC

\* ------------------------------------------------------------- bounds
\* Number of state-change notifications the host delivers in one run.
MaxEvents == 2
\* Number of events the host delivers to the autoplay handlers in one run.
MaxCalls == 4
\* Number of events it delivers in a run where two handler calls overlap.
MaxOverlapCalls == 3
\* Number of calls the host makes into the plugin in a run where it calls
\* the four handlers on two threads.
MaxDispatched == 3
\* Largest length of the mirror (add_tracks events that would exceed it are
\* not delivered).
MaxMirror == 2
\* Largest number of tracks one TracksAddedEvent carries.
MaxAdded == 2
\* Largest number of positions one TracksRemovedEvent carries.
MaxIndices == 2
\* Largest number of ids in one response of dynamic/suggest.
MaxBatch == 2
\* Largest mirror an add_recommendation call that fetches a batch starts from.
MaxFetchMirror == 7
\* Number of events the host delivers from such a mirror.
MaxFetchCalls == 2
\* Number of notifications the host delivers for one track played.
MaxNotifications == 3

\* ---------------------------------------------------------- constants
\* REPORTS_PER_SEC_LIMIT: seconds slept after every delivery attempt.
REPORTS_PER_SEC_LIMIT == 3
\* Divisor of get_last_duration: nanoseconds per second.
NsPerSec == 1000000000
\* QobuzAutoplay.amount_to_request, the limit of a batch fetch.
AmountToRequest == 50
\* Number of tracks a batch fetch sends for analysis.
AnalyseLimit == 5

\* Python's None for current_track_id.
None == "None"
\* The track that QobuzClient.test_secret asks a stream URL for while the
\* client is constructed: get_track_url(track_id=5966783, fmt_id=5, sec=sec).
SetupTrackId == "5966783"
\* Provider track ids, as the strings EntityId.id carries: the track of
\* test_secret and another one.
TrackIds == {"1", SetupTrackId}
\* int(track_id) of the payload builders; ids outside the domain raise ValueError.
StrToInt == [s \in TrackIds |-> IF s = "1" THEN 1 ELSE 5966783]
\* Key sets of track_url_response_cache once the client is constructed:
\* cfg_setup returns only after a get_track_url of test_secret stored its
\* response, and no key is ever removed.
Caches == {c \in SUBSET TrackIds : SetupTrackId \in c}

\* A number of nanoseconds, s * 10^9 + ns with 0 <= ns < 10^9: a value of
\* time.monotonic_ns() or of last_report_time.
Ns(s, ns) == [s |-> s, ns |-> ns]
\* self.last_report_time = 0 of __init__.
Zero == Ns(0, 0)
\* a <= b for two such numbers.
Leq(a, b) == a.s < b.s \/ (a.s = b.s /\ a.ns <= b.ns)
\* Readings time.monotonic_ns() may return (never below an earlier reading):
\* after a second and a half, and a nanosecond below a whole second after
\* 231 days.
ClockReadings == {Ns(1, 500000000), Ns(19999999, 999999999)}
\* The reading a caller of get_last_duration() from outside gets.
CallerReadings == {Ns(19999999, 999999999)}

EndpointStart == "track/reportStreamingStart"
EndpointEnd == "track/reportStreamingEnd"
\* The None that shutdown() puts on the queue.
StopSentinel == [endpoint |-> "None"]
\* The worker's local variable message before its first assignment.
Unset == [endpoint |-> "unset"]

\* Tracks a notification can carry: none, a provider track, a track of
\* another source.
NoTrack == [source |-> "none", id |-> None]
Tracks == {NoTrack} \cup [source : {"qobuz"}, id : TrackIds]
            \cup {[source |-> "local", id |-> "1"]}
\* Event payloads: StateChangedEvent with a player state, or a payload of
\* another type.
StateChangedEvents ==
    [type : {"StateChangedEvent"}, state : {"PLAYING"}, track : Tracks]
    \cup [type : {"StateChangedEvent"}, state : {"STOPPED", "PAUSED", "ERROR"},
          track : {NoTrack}]
OtherEvents == {[type |-> "TracksAddedEvent", state |-> "NONE", track |-> NoTrack]}
Events == StateChangedEvents \cup OtherEvents
\* The payloads the host delivers while the sender runs, one for each path
\* of on_state_changed: a provider track playing, a track of another source
\* playing (lines 95-104), the player stopped (lines 107-116), a payload of
\* another type.
HostEvents ==
    {e \in Events : /\ e.state \notin {"PAUSED", "ERROR"}
                    /\ (e.track = NoTrack) => (e.state # "PLAYING")}
\* Value of last_event.event before any notification.
NoEvent == [type |-> "none", state |-> "NONE", track |-> NoTrack]

\* Threads of the host that call the handlers.
Threads == {1, 2}
\* The thread of a caller of the public get_last_duration().
Caller == 0

VARIABLES
    current_track_id,   \* QobuzReporter.current_track_id
    last_report_time,   \* QobuzReporter.last_report_time
    mqueue,             \* QobuzReporter.mqueue, head first
    isRunning,          \* QobuzReporter._isRunning
    cache,              \* keys of QobuzClient.track_url_response_cache
    worker_pc,          \* position of _sender_worker: loop, get, post, sleep, done
    message,            \* the worker's local variable message
    shutdown_pc,        \* position of shutdown(): idle, put, join, returned
    call,               \* per thread: position and locals of its on_state_changed
                        \* or get_last_duration call
    clock,              \* the latest reading time.monotonic_ns() returned
    \* history, not program state:
    n_events,           \* number of on_state_changed calls that returned or raised
    last_event,         \* the last such call: its event, the fields and the cache
                        \* when it was made, whether it raised, the kinds it put
    n_raised,           \* number of on_state_changed calls that raised
    enqueued,           \* every item put on mqueue, in order
    posted,             \* every message a POST was issued for, in order
    last_outcome,       \* how the last finished POST ended
    n_attempts,         \* number of POSTs that returned or raised
    since_attempt,      \* seconds slept since the last POST returned or raised
    n_at_shutdown,      \* reports enqueued when shutdown() was called (-1 before)
    \* autoplay engine:
    tracks,             \* QobuzAutoplay.tracks, the mirror, oldest first
    remaining_tracks,   \* QobuzAutoplay.remaining_tracks, head first
    suggested_tracks,   \* QobuzAutoplay.suggested_tracks
    can_request_new,    \* QobuzAutoplay.can_request_new
    acall,              \* per thread: position and locals of its autoplay handler call
    \* history, not program state:
    serial,             \* no autoplay call so far began while another was running
    n_calls,            \* number of autoplay handler calls that returned or raised
    last_call,          \* what the last autoplay handler call did (in a run with
                        \* overlapping calls: whether it raised)
    pushed,             \* ids given to PlayQueue.add since suggested_tracks was last cleared
    returned,           \* ids the provider returned since suggested_tracks was last cleared
    requests_since_change,  \* batch-fetch POSTs since the last add_tracks/remove_tracks event
    fetches_since_change,   \* of these, the ones that succeeded
    n_remove_raised,    \* number of remove_tracks calls that raised
    n_malformed         \* number of TracksRemovedEvents with a repeated position or
                        \* one outside the mirror

reporterState == <<current_track_id, last_report_time, mqueue, isRunning,
                   cache, worker_pc, message, shutdown_pc, call, clock,
                   n_events, last_event, n_raised, enqueued, posted, last_outcome,
                   n_attempts, since_attempt, n_at_shutdown>>
autoplayFields == <<tracks, remaining_tracks, suggested_tracks, can_request_new>>
autoplayHist == <<serial, n_calls, last_call, pushed, returned, requests_since_change,
                  fetches_since_change, n_remove_raised, n_malformed>>
autoplayVars == <<autoplayFields, acall, autoplayHist>>
vars == <<reporterState, autoplayVars>>
reporterVars == <<current_track_id, last_report_time, call, clock>>
workerVars == <<worker_pc, message, posted, last_outcome, n_attempts, since_attempt>>
handlerHist == <<n_events, last_event, n_raised, n_at_shutdown>>

\* ------------------------------------------------------ pure functions

\* report_time - last, as a sign and a magnitude of s * 10^9 + ns nanoseconds.
Minus(a, b) ==
    LET Diff(x, y) == IF x.ns >= y.ns THEN Ns(x.s - y.s, x.ns - y.ns)
                      ELSE Ns(x.s - y.s - 1, x.ns + NsPerSec - y.ns)
    IN  IF Leq(b, a) THEN [neg |-> FALSE, mag |-> Diff(a, b)]
        ELSE [neg |-> TRUE, mag |-> Diff(b, a)]

\* Half the distance, in whole nanoseconds, between the doubles just below
\* k + 1 seconds: a quotient less than that below k + 1 is rounded to k + 1
\* by the floating-point division (doubles carry 53 bits).
RoundUpWindow(k) ==
    IF k < 16777216 THEN 0
    ELSE IF k < 33554432 THEN 1
    ELSE IF k < 67108864 THEN 3
    ELSE IF k < 134217728 THEN 7
    ELSE IF k < 268435456 THEN 14
    ELSE IF k < 536870912 THEN 29
    ELSE IF k < 1073741824 THEN 59
    ELSE 119

\* int(x / 1_000_000_000): x / 1_000_000_000 is the double nearest to the
\* quotient, int() truncates it toward zero. A quotient within the rounding
\* window below a whole number of seconds becomes that whole number.
TruncDiv(x) ==
    LET k == x.mag.s
        q == IF x.mag.ns > 0 /\ NsPerSec - x.mag.ns <= RoundUpWindow(k)
             THEN k + 1 ELSE k
    IN  IF x.neg THEN -q ELSE q

\* get_last_duration: the seconds since the last reading and the new
\* last_report_time.
GetLastDuration(last, report_time) ==
    [time_played |-> TruncDiv(Minus(report_time, last)),
     last_report_time |-> report_time]

\* _make_start_report_message: ok is FALSE when the builder raises.
MakeStartReportMessage(track_id, c) ==
    IF track_id \notin DOMAIN StrToInt THEN [ok |-> FALSE]
    ELSE IF track_id \notin c THEN [ok |-> FALSE]
    ELSE [ok |-> TRUE, track_id |-> StrToInt[track_id], duration |-> 0]

\* _make_end_report_message passing a negative duration on.
MakeEndReportMessageNoClamp(track_id, duration_s, c) ==
    IF track_id \notin DOMAIN StrToInt THEN [ok |-> FALSE]
    ELSE IF track_id \notin c THEN [ok |-> FALSE]
    ELSE [ok |-> TRUE, track_id |-> StrToInt[track_id], duration |-> duration_s]

\* _make_end_report_message: a negative duration is replaced by 0.
MakeEndReportMessage(track_id, duration_s, c) ==
    IF track_id \notin DOMAIN StrToInt THEN [ok |-> FALSE]
    ELSE IF track_id \notin c THEN [ok |-> FALSE]
    ELSE [ok |-> TRUE, track_id |-> StrToInt[track_id],
          duration |-> IF duration_s < 0 THEN 0 ELSE duration_s]

\* The dict put on the queue; uid stands for the identity of the object.
Msg(endpoint, params, uid) ==
    [endpoint |-> endpoint, track_id |-> params.track_id,
     duration |-> params.duration, uid |-> uid]

\* A result of on_state_changed: the fields after the call, the messages
\* put (in order) and whether the call raised.
Result(cur, last, puts, exc) ==
    [current_track_id |-> cur, last_report_time |-> last, puts |-> puts,
     raised |-> exc]

\* The statement
\*   self.mqueue.put({"endpoint": "track/reportStreamingEnd",
\*       "params": self._make_end_report_message(self.current_track_id,
\*                                               self.get_last_duration())})
\* run without another thread in between: get_last_duration runs first, then
\* the builder, then put.
PutEndReport(cur, last, c, t, uid) ==
    LET d == GetLastDuration(last, t)
        p == MakeEndReportMessage(cur, d.time_played, c)
    IN  IF p.ok
        THEN Result(cur, d.last_report_time, <<Msg(EndpointEnd, p, uid)>>, FALSE)
        ELSE Result(cur, d.last_report_time, <<>>, TRUE)

\* Lines 59-81 run without another thread in between: a provider track other
\* than the tracked one is playing. The get_last_duration of line 81 is the
\* second reading of the clock when an end report was built, the first
\* otherwise.
TrackChange(new_id, cur, last, c, t1, t2, uid) ==
    LET e == IF cur # None THEN PutEndReport(cur, last, c, t1, uid)
             ELSE Result(cur, last, <<>>, FALSE)
    IN  IF e.raised THEN e
        ELSE LET p == MakeStartReportMessage(new_id, c)
             IN  IF ~p.ok
                 THEN Result(new_id, e.last_report_time, e.puts, TRUE)
                 ELSE Result(new_id,
                             GetLastDuration(e.last_report_time,
                                             IF cur # None THEN t2 ELSE t1).last_report_time,
                             e.puts \o <<Msg(EndpointStart, p, uid + Len(e.puts))>>,
                             FALSE)

\* Lines 95-104 and 107-116 run without another thread in between: end the
\* tracked track and stop tracking.
EndTracking(cur, last, c, t1, uid) ==
    IF cur # None
    THEN LET e == PutEndReport(cur, last, c, t1, uid)
         IN  IF e.raised THEN e
             ELSE Result(None, e.last_report_time, e.puts, FALSE)
    ELSE Result(cur, last, <<>>, FALSE)

\* on_state_changed run without another thread in between, as a function of
\* the event, the reporter's fields, the cache, the readings t1, t2 that its
\* first and second call of time.monotonic_ns() return (it makes at most
\* two) and the identity of the first message it creates.
OnStateChangedResult(event, cur, last, c, t1, t2, uid) ==
    IF event.type # "StateChangedEvent" THEN Result(cur, last, <<>>, FALSE)
    ELSE IF event.state = "PLAYING"
    THEN IF event.track # NoTrack /\ event.track.source = "qobuz"
         THEN IF event.track.id # cur
              THEN TrackChange(event.track.id, cur, last, c, t1, t2, uid)
              ELSE IF cur # None
              THEN PutEndReport(cur, last, c, t1, uid)
              ELSE Result(cur, last, <<>>, FALSE)
         ELSE EndTracking(cur, last, c, t1, uid)
    ELSE IF event.state \in {"STOPPED", "PAUSED", "ERROR"}
    THEN EndTracking(cur, last, c, t1, uid)
    ELSE Result(cur, last, <<>>, FALSE)

\* The report messages of a sequence of queue items (the sentinel left out).
IsReport(m) == m # StopSentinel
Reports(items) == SelectSeq(items, IsReport)

\* ----------------------------------------------- autoplay: values

\* Python values of the two types a track id takes: the str that EntityId.id
\* carries (qobuz.py builds it with str(track["id"])) and the int of a JSON
\* response. n is the number the digits spell; a str never equals an int.
PyStr(n) == [py |-> "str", n |-> n]
PyInt(n) == [py |-> "int", n |-> n]
\* int(x) and str(x) on such values.
ToInt(x) == PyInt(x.n)
ToStr(x) == PyStr(x.n)

\* Track numbers of the provider's catalogue.
CatalogIds == {1, 2}
\* Entries of the host play queue: provider tracks and a track of another
\* source.
QueueTracks ==
    [source : {"qobuz"}, id : {PyStr(n) : n \in CatalogIds}]
        \cup {[source |-> "local", id |-> PyStr(1)]}

SeqsOf(S, lo, hi) == UNION {[1..n -> S] : n \in lo..hi}
NoDup(s) == \A i, j \in DOMAIN s : (s[i] = s[j]) => (i = j)

\* Payloads of the three events, and a payload of another type.
TracksAddedEvents ==
    [type : {"TracksAddedEvent"}, tracks : SeqsOf(QueueTracks, 1, MaxAdded)]
TracksRemovedEvents ==
    [type : {"TracksRemovedEvent"}, indices : SeqsOf(0..MaxMirror, 1, MaxIndices)]
RequestMoreTracksEvent == [type |-> "RequestMoreTracksEvent"]
WrongEvent == [type |-> "StateChangedEvent"]

\* What req.json()["tracks"]["items"] of dynamic/suggest lists: ids as JSON
\* numbers, in any order, an id possibly more than once (line 115 takes the
\* items as they come).
Batches == SeqsOf({PyInt(n) : n \in CatalogIds}, 0, MaxBatch)
\* How the POST of dynamic/suggest and the reading of its response end: with
\* a list of ids, or raising (transport error, a body without tracks/items or
\* algorithm).
FailedResponse == [status |-> "failed", ids |-> <<>>]
Responses == {FailedResponse} \cup [status : {"ok"}, ids : Batches]
NoResponse == [status |-> "none", ids |-> <<>>]
\* How track_browser.get_track_info([id]) ends: with the TrackInfo of the
\* track, with an empty list (track/getList lists no item), or raising
\* (raise_for_status, InvalidAppSecretError).
LookupOutcomes == {"found", "not_found", "raises"}

\* The json of a batch-fetch request; limit 0 stands for no request.
Request(listened, analysed) ==
    [limit |-> AmountToRequest, listened_tracks_ids |-> listened,
     track_to_analysed |-> analysed]
NoRequest == [limit |-> 0, listened_tracks_ids |-> <<>>, track_to_analysed |-> <<>>]

\* ------------------------------------------- autoplay: pure functions

\* _has_any_qobuz_tracks
HasAnyQobuzTracks(ts) == \E i \in DOMAIN ts : ts[i].source = "qobuz"

\* _track_meta_to_autoplay, the track_id field (the mirror entries of the
\* model carry no performer, genre or label).
TrackMetaToAutoplay(t) == [track_id |-> ToInt(t.id)]

\* TrackInfo that _track_to_track_info builds for the looked-up track.
TrackInfo(id) == [source |-> "qobuz", id |-> ToStr(id)]

\* del self.tracks[i], i counted from 0.
DelAt(ts, i) == SubSeq(ts, 1, i) \o SubSeq(ts, i + 2, Len(ts))

\* ------------------------------------------------------------ actions

\* A thread that is in no call. pc is the position in qobuz_reporter.py:
\* before the statement at a line, "put" before the Queue.put of the
\* statement at line site, "done" once the call returned or raised. site is
\* the line of the statement being run: 63, 84 and 96 (for 96-103 and
\* 108-115) put an end report, 73 puts the start report, 81 calls
\* get_last_duration; "public" is a call of get_last_duration from outside.
\* The locals: arg is the self.current_track_id handed to the end builder,
\* report_time and time_played those of get_last_duration. cur0 and cache0
\* are current_track_id and the cache when the call was made, puts the kinds
\* of the messages it has put.
NoCall ==
    [pc |-> "idle", event |-> NoEvent, site |-> "none", arg |-> None,
     report_time |-> Zero, time_played |-> 0,
     cur0 |-> None, cache0 |-> {}, raised |-> FALSE, puts |-> <<>>]

\* QobuzClient.__init__ (the cache holds the response of test_secret's
\* get_track_url) and QobuzReporter.__init__, the latest reading of
\* time.monotonic_ns() being clk.
ReporterAt(clk) ==
    /\ current_track_id = None
    /\ last_report_time = Zero
    /\ mqueue = <<>>
    /\ isRunning = TRUE
    /\ cache = {SetupTrackId}
    /\ worker_pc = "loop"
    /\ message = Unset
    /\ shutdown_pc = "idle"
    /\ call = [t \in Threads \cup {Caller} |-> NoCall]
    /\ clock = clk
    /\ n_events = 0
    /\ last_event = [event |-> NoEvent, cur0 |-> None, cache0 |-> {},
                     raised |-> FALSE, puts |-> <<>>]
    /\ n_raised = 0
    /\ enqueued = <<>>
    /\ posted = <<>>
    /\ last_outcome = "none"
    /\ n_attempts = 0
    /\ since_attempt = 0
    /\ n_at_shutdown = -1

\* The reporter built before any reading of the clock.
ReporterInit == ReporterAt(Zero)

\* A thread that is in no autoplay handler call. pc is the position in
\* qobuz_autoplay.py. The locals: todo are the positions of event.indices
\* the loop of line 56 has not reached yet, j the number of entries of
\* self.tracks the iterator of line 65 or 85 has handed out, qtracks the list
\* tracks of line 85, i the loop variable of line 91 (counted from 1), five
\* the entries collected as five_tracks_to_analyse, track_ids the list of line 115,
\* recommended the recommended_track of line 80. before are the four fields
\* when the call was made, request, fetched and adds the POST it made, the
\* response it read and the arguments of its PlayQueue.add calls.
NoFields ==
    [tracks |-> <<>>, remaining_tracks |-> <<>>, suggested_tracks |-> {},
     can_request_new |-> TRUE]
NoAutoplayCall ==
    [pc |-> "idle", op |-> "none", added |-> <<>>, todo |-> <<>>, j |-> 0,
     qtracks |-> <<>>, i |-> 0, five |-> <<>>, track_ids |-> <<>>, recommended |-> [py |-> "int", n |-> 0],
     before |-> NoFields, indices |-> <<>>,
     request |-> [limit |-> 0, listened_tracks_ids |-> <<>>, track_to_analysed |-> <<>>],
     fetched |-> [status |-> "none", ids |-> <<>>], adds |-> <<>>]
\* last_call before any call returned, and in runs with overlapping calls.
NoLastCall ==
    [op |-> "none", typed |-> FALSE, raised |-> FALSE,
     request |-> [limit |-> 0, listened_tracks_ids |-> <<>>, track_to_analysed |-> <<>>],
     fetched |-> [status |-> "none", ids |-> <<>>], adds |-> <<>>,
     before |-> NoFields, indices |-> <<>>]

\* QobuzAutoplay.__init__
AutoplayInit ==
    /\ tracks = <<>>
    /\ remaining_tracks = <<>>
    /\ suggested_tracks = {}
    /\ can_request_new = TRUE
    /\ acall = [t \in Threads |-> NoAutoplayCall]
    /\ serial = TRUE
    /\ n_calls = 0
    /\ last_call = NoLastCall
    /\ pushed = <<>>
    /\ returned = <<>>
    /\ requests_since_change = 0
    /\ fetches_since_change = 0
    /\ n_remove_raised = 0
    /\ n_malformed = 0

\* The plugin after setup(): module_setup.py builds the client (whose
\* constructor fills the cache with the track of test_secret), the reporter
\* and the autoplay engine.
Init == ReporterInit /\ AutoplayInit

\* The plugin after setup() in a process whose clock has reached the latest
\* of the readings: every call of time.monotonic_ns() returns that one.
LateInit == ReporterAt(Ns(19999999, 999999999)) /\ AutoplayInit

\* QobuzClient.get_track_url stores the response under str(track_id).
GetTrackUrl(id) ==
    /\ id \notin cache
    /\ cache' = cache \cup {id}
    /\ UNCHANGED <<autoplayVars, reporterVars, mqueue, isRunning, workerVars,
                   shutdown_pc, handlerHist, enqueued>>

\* What no statement of on_state_changed or get_last_duration writes.
handlerFrame == <<autoplayVars, isRunning, cache, workerVars, shutdown_pc,
                  n_at_shutdown>>

\* The call of thread t goes on at position pc.
Goes(t, pc) ==
    /\ call' = [call EXCEPT ![t].pc = pc]
    /\ UNCHANGED <<n_events, last_event, n_raised>>

\* The on_state_changed call c of thread t returns, or raises when exc
\* holds, having put messages of the kinds puts.
Returns(t, c, exc, puts) ==
    /\ call' = [call EXCEPT ![t] = [NoCall EXCEPT !.pc = "done", !.event = c.event,
                                                  !.raised = exc]]
    /\ n_events' = n_events + 1
    /\ last_event' = [event |-> c.event, cur0 |-> c.cur0, cache0 |-> c.cache0,
                      raised |-> exc, puts |-> puts]
    /\ n_raised' = n_raised + (IF exc THEN 1 ELSE 0)

\* Enter without the isinstance test of line 40: a payload of any type is
\* handled as a StateChangedEvent.
EnterAnyType(t, event) ==
    LET c == [NoCall EXCEPT !.event = event, !.cur0 = current_track_id,
                            !.cache0 = cache]
    IN  /\ call' = [call EXCEPT
                      ![t] = [c EXCEPT
                                !.pc = IF event.state = "PLAYING"
                                          /\ event.track # NoTrack
                                          /\ event.track.source = "qobuz"
                                       THEN "l59" ELSE "l95"]]
        /\ UNCHANGED <<n_events, last_event, n_raised>>
        /\ UNCHANGED <<handlerFrame, current_track_id, last_report_time, clock, mqueue,
                       enqueued>>

\* Thread t calls on_state_changed(event). Lines 40-57 and 105 read the
\* event only: a payload of another type returns at line 42, any other call
\* stands before the first statement that reads the reporter's fields.
Enter(t, event) ==
    LET c == [NoCall EXCEPT !.event = event, !.cur0 = current_track_id,
                            !.cache0 = cache]
    IN  /\ IF event.type # "StateChangedEvent"
           THEN Returns(t, c, FALSE, <<>>)
           ELSE /\ call' = [call EXCEPT
                              ![t] = [c EXCEPT
                                        !.pc = IF event.state = "PLAYING"
                                                  /\ event.track # NoTrack
                                                  /\ event.track.source = "qobuz"
                                               THEN "l59" ELSE "l95"]]
                /\ UNCHANGED <<n_events, last_event, n_raised>>
        /\ UNCHANGED <<handlerFrame, current_track_id, last_report_time, clock, mqueue,
                       enqueued>>

\* The host delivers one notification to on_state_changed; the calls come
\* one after the other, on one thread.
OnStateChanged(event) ==
    /\ n_events < MaxEvents
    /\ call[1].pc \in {"idle", "done"}
    /\ Enter(1, event)

\* Line 59: if current_qobuz_track_id != self.current_track_id
TestTrackChange(t) ==
    /\ call[t].pc = "l59"
    /\ Goes(t, IF call[t].event.track.id # current_track_id THEN "l61" ELSE "l82")
    /\ UNCHANGED <<handlerFrame, current_track_id, last_report_time, clock, mqueue,
                   enqueued>>

\* TestPrevious going on to line 72 without the end report of the previous
\* track.
TestPreviousNoEnd(t) ==
    /\ call[t].pc = "l61"
    /\ Goes(t, "l72")
    /\ UNCHANGED <<handlerFrame, current_track_id, last_report_time, clock, mqueue,
                   enqueued>>

\* Line 61: if self.current_track_id is not None
TestPrevious(t) ==
    /\ call[t].pc = "l61"
    /\ IF current_track_id # None
       THEN call' = [call EXCEPT ![t].pc = "l67", ![t].site = "l63"]
       ELSE call' = [call EXCEPT ![t].pc = "l72"]
    /\ UNCHANGED <<handlerFrame, current_track_id, last_report_time, clock, mqueue,
                   enqueued, n_events, last_event, n_raised>>

\* Lines 67, 88, 100, 112: self.current_track_id is read as the first
\* argument of _make_end_report_message.
ReadTracked(t) ==
    /\ call[t].pc = "l67"
    /\ call' = [call EXCEPT ![t].pc = "l27", ![t].arg = current_track_id]
    /\ UNCHANGED <<handlerFrame, current_track_id, last_report_time, clock, mqueue,
                   enqueued, n_events, last_event, n_raised>>

\* Line 27: report_time = time.monotonic_ns(), r being the reading (not
\* below the latest reading of any thread).
ReadClock(t, r) ==
    /\ call[t].pc = "l27"
    /\ Leq(clock, r)
    /\ clock' = r
    /\ call' = [call EXCEPT ![t].pc = "l28", ![t].report_time = r]
    /\ UNCHANGED <<handlerFrame, current_track_id, last_report_time, mqueue, enqueued,
                   n_events, last_event, n_raised>>

\* Line 28: time_played = int((report_time - self.last_report_time) /
\* 1_000_000_000). The value is used by the statements that build an end
\* report; line 81 and a caller from outside drop it (0 stands for it).
ReadLastReportTime(t) ==
    /\ call[t].pc = "l28"
    /\ call' = [call EXCEPT
                  ![t].pc = "l29",
                  ![t].time_played =
                      IF call[t].site \in {"l81", "public"} THEN 0
                      ELSE GetLastDuration(last_report_time,
                                           call[t].report_time).time_played]
    /\ UNCHANGED <<handlerFrame, current_track_id, last_report_time, clock, mqueue,
                   enqueued, n_events, last_event, n_raised>>

\* Line 29: self.last_report_time = report_time, and the return of
\* get_last_duration: to the statement that puts the end report, to the end
\* of on_state_changed (line 81), or to the caller from outside (one such
\* call is made in a run).
StoreLastReportTime(t) ==
    /\ call[t].pc = "l29"
    /\ last_report_time' = call[t].report_time
    /\ IF call[t].site = "public"
       THEN /\ call' = [call EXCEPT ![t] = [NoCall EXCEPT !.pc = "done"]]
            /\ UNCHANGED <<n_events, last_event, n_raised>>
       ELSE IF call[t].site = "l81"
       THEN Returns(t, call[t], FALSE, call[t].puts)
       ELSE Goes(t, "put")
    /\ UNCHANGED <<handlerFrame, current_track_id, clock, mqueue, enqueued>>

\* PutEnd putting nothing.
PutEndSkipped(t) ==
    /\ call[t].pc = "put"
    /\ call[t].site \in {"l63", "l84", "l96"}
    /\ LET p == MakeEndReportMessage(call[t].arg, call[t].time_played, cache)
       IN  IF ~p.ok THEN Returns(t, call[t], TRUE, call[t].puts)
           ELSE IF call[t].site = "l84"
           THEN Returns(t, call[t], FALSE, call[t].puts)
           ELSE Goes(t, IF call[t].site = "l63" THEN "l72" ELSE "l104")
    /\ UNCHANGED <<handlerFrame, current_track_id, last_report_time, clock, mqueue,
                   enqueued>>

\* The rest of the statements of lines 63, 84, 96 and 108, once
\* get_last_duration() returned: _make_end_report_message(arg, time_played)
\* reads the cache and raises, ending the call, or its dict is put with
\* self.mqueue.put({"endpoint": "track/reportStreamingEnd", "params": ...});
\* the call then goes on at line 72, returns, or goes on at line 104 (116).
PutEnd(t) ==
    /\ call[t].pc = "put"
    /\ call[t].site \in {"l63", "l84", "l96"}
    /\ LET p == MakeEndReportMessage(call[t].arg, call[t].time_played, cache)
           m == Msg(EndpointEnd, p, Len(enqueued) + 1)
           puts == Append(call[t].puts, <<m.endpoint, m.track_id>>)
       IN  IF ~p.ok
           THEN /\ Returns(t, call[t], TRUE, call[t].puts)
                /\ UNCHANGED <<mqueue, enqueued>>
           ELSE /\ mqueue' = Append(mqueue, m)
                /\ enqueued' = Append(enqueued, m)
                /\ IF call[t].site = "l84"
                   THEN Returns(t, call[t], FALSE, puts)
                   ELSE /\ call' = [call EXCEPT
                                      ![t].pc = IF call[t].site = "l63" THEN "l72"
                                                ELSE "l104",
                                      ![t].puts = puts]
                        /\ UNCHANGED <<n_events, last_event, n_raised>>
    /\ UNCHANGED <<handlerFrame, current_track_id, last_report_time, clock>>

\* Line 72: self.current_track_id = current_qobuz_track_id
AssignCurrent(t) ==
    /\ call[t].pc = "l72"
    /\ current_track_id' = call[t].event.track.id
    /\ call' = [call EXCEPT ![t].pc = "put", ![t].site = "l73"]
    /\ UNCHANGED <<handlerFrame, last_report_time, clock, mqueue, enqueued, n_events,
                   last_event, n_raised>>

\* Lines 73-80: _make_start_report_message(current_qobuz_track_id) reads
\* the cache and raises, ending the call, or its dict is put with
\* self.mqueue.put({"endpoint": "track/reportStreamingStart", "params": ...});
\* the call then goes on with the get_last_duration() of line 81.
PutStart(t) ==
    /\ call[t].pc = "put"
    /\ call[t].site = "l73"
    /\ LET p == MakeStartReportMessage(call[t].event.track.id, cache)
           m == Msg(EndpointStart, p, Len(enqueued) + 1)
       IN  IF ~p.ok
           THEN /\ Returns(t, call[t], TRUE, call[t].puts)
                /\ UNCHANGED <<mqueue, enqueued>>
           ELSE /\ mqueue' = Append(mqueue, m)
                /\ enqueued' = Append(enqueued, m)
                /\ call' = [call EXCEPT
                              ![t].pc = "l27", ![t].site = "l81",
                              ![t].puts = Append(@, <<m.endpoint, m.track_id>>)]
                /\ UNCHANGED <<n_events, last_event, n_raised>>
    /\ UNCHANGED <<handlerFrame, current_track_id, last_report_time, clock>>

\* TestSameTrack returning without the end report.
TestSameTrackIgnored(t) ==
    /\ call[t].pc = "l82"
    /\ Returns(t, call[t], FALSE, call[t].puts)
    /\ UNCHANGED <<handlerFrame, current_track_id, last_report_time, clock, mqueue,
                   enqueued>>

\* Line 82: elif self.current_track_id is not None
TestSameTrack(t) ==
    /\ call[t].pc = "l82"
    /\ IF current_track_id # None
       THEN /\ call' = [call EXCEPT ![t].pc = "l67", ![t].site = "l84"]
            /\ UNCHANGED <<n_events, last_event, n_raised>>
       ELSE Returns(t, call[t], FALSE, call[t].puts)
    /\ UNCHANGED <<handlerFrame, current_track_id, last_report_time, clock, mqueue,
                   enqueued>>

\* TestTracking going on to line 104 (116) without the end report.
TestTrackingNoReport(t) ==
    /\ call[t].pc = "l95"
    /\ IF current_track_id # None
       THEN /\ call' = [call EXCEPT ![t].pc = "l104"]
            /\ UNCHANGED <<n_events, last_event, n_raised>>
       ELSE Returns(t, call[t], FALSE, call[t].puts)
    /\ UNCHANGED <<handlerFrame, current_track_id, last_report_time, clock, mqueue,
                   enqueued>>

\* Lines 95 and 107: if self.current_track_id is not None
TestTracking(t) ==
    /\ call[t].pc = "l95"
    /\ IF current_track_id # None
       THEN /\ call' = [call EXCEPT ![t].pc = "l67", ![t].site = "l96"]
            /\ UNCHANGED <<n_events, last_event, n_raised>>
       ELSE Returns(t, call[t], FALSE, call[t].puts)
    /\ UNCHANGED <<handlerFrame, current_track_id, last_report_time, clock, mqueue,
                   enqueued>>

\* Lines 104 and 116: self.current_track_id = None
ClearCurrent(t) ==
    /\ call[t].pc = "l104"
    /\ current_track_id' = None
    /\ Returns(t, call[t], FALSE, call[t].puts)
    /\ UNCHANGED <<handlerFrame, last_report_time, clock, mqueue, enqueued>>

\* A caller of the public get_last_duration() enters it and runs line 27,
\* r being the reading of the clock.
CallGetLastDuration(r) ==
    /\ call[Caller].pc = "idle"
    /\ Leq(clock, r)
    /\ clock' = r
    /\ call' = [call EXCEPT ![Caller] = [NoCall EXCEPT !.pc = "l28", !.site = "public",
                                                       !.report_time = r]]
    /\ UNCHANGED <<handlerFrame, current_track_id, last_report_time, mqueue, enqueued,
                   n_events, last_event, n_raised>>

\* The loop test leaving the loop once a delivery attempt did not succeed.
WorkerLoopTestStopsOnFailure ==
    /\ worker_pc = "loop"
    /\ worker_pc' = IF isRunning /\ last_outcome \in {"none", "success"}
                    THEN "get" ELSE "done"
    /\ UNCHANGED <<autoplayVars, reporterVars, mqueue, isRunning, cache, message,
                   shutdown_pc, handlerHist, enqueued, posted, last_outcome, n_attempts,
                   since_attempt>>

\* while self._isRunning:
WorkerLoopTest ==
    /\ worker_pc = "loop"
    /\ worker_pc' = IF isRunning THEN "get" ELSE "done"
    /\ UNCHANGED <<autoplayVars, reporterVars, mqueue, isRunning, cache, message,
                   shutdown_pc, handlerHist, enqueued, posted, last_outcome, n_attempts,
                   since_attempt>>

\* WorkerGet taking the newest item of the queue instead of the oldest.
WorkerGetLifo ==
    /\ worker_pc = "get"
    /\ mqueue # <<>>
    /\ message' = mqueue[Len(mqueue)]
    /\ mqueue' = SubSeq(mqueue, 1, Len(mqueue) - 1)
    /\ IF mqueue[Len(mqueue)] = StopSentinel
       THEN /\ worker_pc' = "done"
            /\ UNCHANGED posted
       ELSE /\ worker_pc' = "post"
            /\ posted' = Append(posted, mqueue[Len(mqueue)])
    /\ UNCHANGED <<autoplayVars, reporterVars, isRunning, cache, shutdown_pc,
                   handlerHist, enqueued, last_outcome, n_attempts, since_attempt>>

\* message = self.mqueue.get() (blocks while the queue is empty); a None
\* breaks out of the loop, anything else is POSTed.
WorkerGet ==
    /\ worker_pc = "get"
    /\ mqueue # <<>>
    /\ message' = Head(mqueue)
    /\ mqueue' = Tail(mqueue)
    /\ IF Head(mqueue) = StopSentinel
       THEN /\ worker_pc' = "done"
            /\ UNCHANGED posted
       ELSE /\ worker_pc' = "post"
            /\ posted' = Append(posted, Head(mqueue))
    /\ UNCHANGED <<autoplayVars, reporterVars, isRunning, cache, shutdown_pc,
                   handlerHist, enqueued, last_outcome, n_attempts, since_attempt>>

\* How session.post and the logging after it can end: a success response,
\* a response that is not a success, a success whose json() raises, or
\* post itself raising.
PostOutcomes == {"success", "failure", "bad_json", "exception"}

\* WorkerPostReturn with a raising POST ending the thread (no except clause).
WorkerPostReturnDies(outcome) ==
    /\ worker_pc = "post"
    /\ last_outcome' = outcome
    /\ n_attempts' = n_attempts + 1
    /\ worker_pc' = IF outcome = "exception" THEN "done" ELSE "sleep"
    /\ since_attempt' = 0
    /\ UNCHANGED <<autoplayVars, reporterVars, mqueue, isRunning, cache, message,
                   shutdown_pc,
                   handlerHist, enqueued, posted>>

\* WorkerPostReturn putting a message whose delivery failed back on the queue.
WorkerPostReturnRetry(outcome) ==
    /\ worker_pc = "post"
    /\ last_outcome' = outcome
    /\ n_attempts' = n_attempts + 1
    /\ mqueue' = IF outcome = "success" THEN mqueue ELSE Append(mqueue, message)
    /\ worker_pc' = "sleep"
    /\ since_attempt' = 0
    /\ UNCHANGED <<autoplayVars, reporterVars, isRunning, cache, message, shutdown_pc,
                   handlerHist, enqueued, posted>>

\* WorkerPostReturn with the except clause skipping the sleep.
WorkerPostReturnNoSleep(outcome) ==
    /\ worker_pc = "post"
    /\ last_outcome' = outcome
    /\ n_attempts' = n_attempts + 1
    /\ worker_pc' = IF outcome \in {"exception", "bad_json"} THEN "loop" ELSE "sleep"
    /\ since_attempt' = 0
    /\ UNCHANGED <<autoplayVars, reporterVars, mqueue, isRunning, cache, message,
                   shutdown_pc,
                   handlerHist, enqueued, posted>>

\* The POST returns or raises (task_done() runs when it returned). Every
\* outcome, logged or caught by the except clause, leads to the sleep.
WorkerPostReturn(outcome) ==
    /\ worker_pc = "post"
    /\ last_outcome' = outcome
    /\ n_attempts' = n_attempts + 1
    /\ worker_pc' = "sleep"
    /\ since_attempt' = 0
    /\ UNCHANGED <<autoplayVars, reporterVars, mqueue, isRunning, cache, message,
                   shutdown_pc,
                   handlerHist, enqueued, posted>>

\* time.sleep(REPORTS_PER_SEC_LIMIT) runs to its end; the worker is back at
\* the loop test.
WorkerSleep ==
    /\ worker_pc = "sleep"
    /\ since_attempt' = since_attempt + REPORTS_PER_SEC_LIMIT
    /\ worker_pc' = "loop"
    /\ UNCHANGED <<autoplayVars, reporterVars, mqueue, isRunning, cache, message,
                   shutdown_pc, handlerHist, enqueued, posted, last_outcome, n_attempts>>

\* shutdown(): self._isRunning = False
ShutdownSetFlag ==
    /\ shutdown_pc = "idle"
    /\ isRunning' = FALSE
    /\ shutdown_pc' = "put"
    /\ n_at_shutdown' = Len(Reports(enqueued))
    /\ UNCHANGED <<autoplayVars, reporterVars, mqueue, cache, workerVars,
                   n_events, last_event, n_raised, enqueued>>

\* shutdown() without the put of the sentinel.
ShutdownNoSentinel ==
    /\ shutdown_pc = "put"
    /\ shutdown_pc' = "join"
    /\ UNCHANGED <<autoplayVars, reporterVars, mqueue, enqueued, isRunning, cache,
                   workerVars, handlerHist>>

\* shutdown(): self.mqueue.put(None)
ShutdownPutSentinel ==
    /\ shutdown_pc = "put"
    /\ mqueue' = Append(mqueue, StopSentinel)
    /\ enqueued' = Append(enqueued, StopSentinel)
    /\ shutdown_pc' = "join"
    /\ UNCHANGED <<autoplayVars, reporterVars, isRunning, cache, workerVars, handlerHist>>

\* shutdown() returning without waiting for the worker.
ShutdownJoinNoWait ==
    /\ shutdown_pc = "join"
    /\ shutdown_pc' = "returned"
    /\ UNCHANGED <<autoplayVars, reporterVars, mqueue, isRunning, cache, workerVars,
                   handlerHist, enqueued>>

\* shutdown(): self.sender_job.join() returns once the worker has ended.
ShutdownJoin ==
    /\ shutdown_pc = "join"
    /\ worker_pc = "done"
    /\ shutdown_pc' = "returned"
    /\ UNCHANGED <<autoplayVars, reporterVars, mqueue, isRunning, cache, workerVars,
                   handlerHist, enqueued>>

Worker ==
    \/ WorkerLoopTest
    \/ WorkerGet
    \/ \E o \in PostOutcomes : WorkerPostReturn(o)
    \/ WorkerSleep

Shutdown ==
    \/ ShutdownSetFlag
    \/ ShutdownPutSentinel
    \/ ShutdownJoin

\* The statements of on_state_changed and get_last_duration thread t may
\* run next.
HandlerStep(t) ==
    \/ TestTrackChange(t)
    \/ TestPrevious(t)
    \/ ReadTracked(t)
    \/ \E r \in ClockReadings : ReadClock(t, r)
    \/ ReadLastReportTime(t)
    \/ StoreLastReportTime(t)
    \/ PutEnd(t)
    \/ AssignCurrent(t)
    \/ PutStart(t)
    \/ TestSameTrack(t)
    \/ TestTracking(t)
    \/ ClearCurrent(t)

\* A thread goes on with the call it is in.
Continue == \E t \in Threads \cup {Caller} : HandlerStep(t)

Next ==
    \/ \E id \in TrackIds : GetTrackUrl(id)
    \/ \E e \in HostEvents : OnStateChanged(e)
    \/ Continue
    \/ \E r \in CallerReadings : CallGetLastDuration(r)
    \/ Worker
    \/ Shutdown

Spec == Init /\ [][Next]_vars

\* The worker thread, a thread inside a call of on_state_changed or
\* get_last_duration and a shutdown() that was called are scheduled; every
\* POST returns or raises, every sleep ends.
FairSpec ==
    /\ Spec
    /\ WF_vars(Worker)
    /\ WF_vars(Continue)
    /\ WF_vars(ShutdownPutSentinel)
    /\ WF_vars(ShutdownJoin)

\* ---------------------------------------------------- autoplay: actions

\* The positions of a TracksRemovedEvent are distinct positions of the
\* mirror ts (counted from 0).
ValidPositions(indices, ts) ==
    NoDup(indices) /\ \A k \in DOMAIN indices : indices[k] < Len(ts)

\* The four fields of the engine.
Fields ==
    [tracks |-> tracks, remaining_tracks |-> remaining_tracks,
     suggested_tracks |-> suggested_tracks, can_request_new |-> can_request_new]
\* The threads that are in a handler call.
Running == {t \in Threads : acall[t].pc # "idle"}
\* Entries add_tracks calls in progress have still to append.
Pending(t) == IF acall[t].pc = "l48" THEN Len(acall[t].added) ELSE 0
\* The call record c without its history.
Forget(c) ==
    [c EXCEPT !.before = NoFields, !.indices = <<>>, !.request = NoRequest,
              !.fetched = NoResponse, !.adds = <<>>]

\* The history once a call of kind op returned, or raised when exc holds; c
\* is the record of the call. In a run where a call began while another was
\* in progress only the number of calls and whether the last one raised are
\* kept.
Recorded(ser, op, typed, exc, c) ==
    LET cleared == op = "remove_tracks" /\ typed /\ ~exc /\ ~HasAnyQobuzTracks(tracks)
        changed == typed /\ op \in {"add_tracks", "remove_tracks"}
        ids == IF c.adds = <<>> THEN <<>>
               ELSE [k \in DOMAIN c.adds[1] |-> ToInt(c.adds[1][k].id)]
        malformed == op = "remove_tracks" /\ typed
                     /\ ~ValidPositions(c.indices, c.before.tracks)
    IN  /\ n_calls' = n_calls + 1
        /\ IF ser
           THEN /\ last_call' = [op |-> op, typed |-> typed, raised |-> exc,
                                 request |-> c.request, fetched |-> c.fetched,
                                 adds |-> c.adds, before |-> c.before,
                                 indices |-> c.indices]
                /\ pushed' = IF cleared THEN <<>> ELSE pushed \o ids
                /\ returned' = IF cleared THEN <<>> ELSE returned \o c.fetched.ids
                /\ requests_since_change' =
                       IF changed THEN 0
                       ELSE requests_since_change
                                + (IF c.request # NoRequest THEN 1 ELSE 0)
                /\ fetches_since_change' =
                       IF changed THEN 0
                       ELSE fetches_since_change
                                + (IF c.fetched.status = "ok" THEN 1 ELSE 0)
                /\ n_remove_raised' =
                       n_remove_raised
                           + (IF op = "remove_tracks" /\ exc THEN 1 ELSE 0)
                /\ n_malformed' = n_malformed + (IF malformed THEN 1 ELSE 0)
           ELSE /\ last_call' = [NoLastCall EXCEPT !.raised = exc]
                /\ pushed' = <<>>
                /\ returned' = <<>>
                /\ requests_since_change' = 0
                /\ fetches_since_change' = 0
                /\ n_remove_raised' = 0
                /\ n_malformed' = 0

\* Thread t calls the handler op with event. The isinstance test of lines
\* 44, 52 and 68 reads the event only: a payload of another type returns at
\* once, any other call stands at position pc with the locals of c.
Begins(t, op, event, expected, pc, c) ==
    LET ser == serial /\ Running = {}
        mine == [c EXCEPT !.pc = pc, !.op = op, !.before = Fields]
    IN  /\ acall[t].pc = "idle"
        /\ n_calls + Cardinality(Running) < (IF ser THEN MaxCalls ELSE MaxOverlapCalls)
        /\ serial' = ser
        /\ IF event.type # expected
           THEN /\ acall' = IF ser THEN acall ELSE [u \in Threads |-> Forget(acall[u])]
                /\ Recorded(ser, op, FALSE, FALSE, mine)
           ELSE /\ acall' = [u \in Threads |->
                               IF ser THEN (IF u = t THEN mine ELSE acall[u])
                               ELSE Forget(IF u = t THEN mine ELSE acall[u])]
                /\ IF ser
                   THEN UNCHANGED autoplayHist
                   ELSE /\ n_calls' = n_calls
                        /\ last_call' = NoLastCall
                        /\ pushed' = <<>>
                        /\ returned' = <<>>
                        /\ requests_since_change' = 0
                        /\ fetches_since_change' = 0
                        /\ n_remove_raised' = 0
                        /\ n_malformed' = 0
        /\ UNCHANGED <<reporterState, autoplayFields>>

\* The call of thread t goes on with the record c.
Moves(t, c) ==
    /\ acall' = [acall EXCEPT ![t] = c]
    /\ UNCHANGED <<serial, n_calls, last_call, pushed, returned, requests_since_change,
                   fetches_since_change, n_remove_raised, n_malformed>>

\* The call of thread t, whose record is c, returns, or raises when exc
\* holds.
Ends(t, c, exc) ==
    /\ acall' = [acall EXCEPT ![t] = NoAutoplayCall]
    /\ Recorded(serial, c.op, TRUE, exc, c)
    /\ UNCHANGED serial

\* The host delivers an event to add_tracks on thread t.
AddTracks(t, event) ==
    /\ event.type = "TracksAddedEvent"
       => Len(tracks) + Pending(1) + Pending(2) + Len(event.tracks) <= MaxMirror
    /\ Begins(t, "add_tracks", event, "TracksAddedEvent", "l48",
              [NoAutoplayCall EXCEPT
                 !.added = IF event.type = "TracksAddedEvent" THEN event.tracks
                           ELSE <<>>])

\* Line 48: self.tracks.extend(event.tracks)
Extend(t) ==
    /\ acall[t].pc = "l48"
    /\ tracks' = tracks \o acall[t].added
    /\ Moves(t, [acall[t] EXCEPT !.pc = "l49"])
    /\ UNCHANGED <<reporterState, remaining_tracks, suggested_tracks,
                   can_request_new>>

\* Rearm leaving can_request_new as it is.
RearmSkipped(t) ==
    /\ acall[t].pc = "l49"
    /\ Ends(t, acall[t], FALSE)
    /\ UNCHANGED <<reporterState, autoplayFields>>

\* Line 49: self.can_request_new = True
Rearm(t) ==
    /\ acall[t].pc = "l49"
    /\ can_request_new' = TRUE
    /\ Ends(t, acall[t], FALSE)
    /\ UNCHANGED <<reporterState, tracks, remaining_tracks, suggested_tracks>>

\* The host delivers an event to remove_tracks on thread t.
RemoveTracks(t, event) ==
    /\ acall[t].pc = "idle"
    /\ Begins(t, "remove_tracks", event, "TracksRemovedEvent", "l57",
              [NoAutoplayCall EXCEPT
                 !.todo = IF event.type = "TracksRemovedEvent" THEN event.indices
                          ELSE <<>>,
                 !.indices = IF event.type = "TracksRemovedEvent" THEN event.indices
                             ELSE <<>>])

\* Lines 56-57: del self.tracks[track] for the next position of
\* event.indices; a position not below the length of the mirror raises
\* IndexError.
DelTrack(t) ==
    /\ acall[t].pc = "l57"
    /\ LET track == Head(acall[t].todo)
           rest == Tail(acall[t].todo)
       IN  IF track >= Len(tracks)
           THEN /\ Ends(t, acall[t], TRUE)
                /\ UNCHANGED tracks
           ELSE /\ tracks' = DelAt(tracks, track)
                /\ Moves(t, [acall[t] EXCEPT
                               !.todo = rest,
                               !.pc = IF rest = <<>> THEN "l59" ELSE "l57"])
    /\ UNCHANGED <<reporterState, remaining_tracks, suggested_tracks,
                   can_request_new>>

\* Lines 59 and 65: if not self._has_any_qobuz_tracks(), one turn of
\* any(track.id.source == "qobuz" for track in self.tracks): the iterator of
\* the list, which has handed out j entries, is asked for the next one. Past
\* the end of the list as it is now any() is False and the call goes on at
\* line 60; an entry of the provider makes it True and the call returns;
\* another entry leads to the next turn.
TestAnyQobuz(t) ==
    /\ acall[t].pc = "l59"
    /\ LET c == acall[t]
       IN  IF c.j >= Len(tracks)
           THEN Moves(t, [c EXCEPT !.pc = "l60", !.j = 0])
           ELSE IF tracks[c.j + 1].source = "qobuz"
           THEN Ends(t, c, FALSE)
           ELSE Moves(t, [c EXCEPT !.j = c.j + 1])
    /\ UNCHANGED <<reporterState, autoplayFields>>

\* Line 60: self.can_request_new = True
ResetRearm(t) ==
    /\ acall[t].pc = "l60"
    /\ can_request_new' = TRUE
    /\ Moves(t, [acall[t] EXCEPT !.pc = "l61"])
    /\ UNCHANGED <<reporterState, tracks, remaining_tracks, suggested_tracks>>

\* Line 61: self.suggested_tracks.clear()
ClearSuggested(t) ==
    /\ acall[t].pc = "l61"
    /\ suggested_tracks' = {}
    /\ Moves(t, [acall[t] EXCEPT !.pc = "l62"])
    /\ UNCHANGED <<reporterState, tracks, remaining_tracks, can_request_new>>

\* Line 62: self.remaining_tracks.clear(). (Were the list replaced by line
\* 123 of another thread between the reading of the attribute and the call
\* of clear(), the list cleared would be the replaced one, which no thread
\* reads again: the outcome of this step taken before that line 123.)
ClearRemaining(t) ==
    /\ acall[t].pc = "l62"
    /\ remaining_tracks' = <<>>
    /\ Ends(t, acall[t], FALSE)
    /\ UNCHANGED <<reporterState, tracks, suggested_tracks, can_request_new>>

\* The host delivers an event to add_recommendation on thread t.
AddRecommendation(t, event) ==
    /\ acall[t].pc = "idle"
    /\ Begins(t, "add_recommendation", event, "RequestMoreTracksEvent", "l72",
              NoAutoplayCall)

\* Line 72: if not self.remaining_tracks
TestRemaining(t) ==
    /\ acall[t].pc = "l72"
    /\ Moves(t, [acall[t] EXCEPT
                   !.pc = IF remaining_tracks = <<>> THEN "l73" ELSE "l76"])
    /\ UNCHANGED <<reporterState, autoplayFields>>

\* Line 73: if self.can_request_new
TestCanRequest(t) ==
    /\ acall[t].pc = "l73"
    /\ Moves(t, [acall[t] EXCEPT !.pc = IF can_request_new THEN "l85" ELSE "l76"])
    /\ UNCHANGED <<reporterState, autoplayFields>>

\* Lines 85-90: tracks = [track for track in self.tracks if
\* track.id.source == "qobuz"], one turn of the comprehension: the iterator
\* of the list, which has handed out j entries, is asked for the next one and
\* an entry of the provider is appended to tracks. Past the end of the list
\* as it is now the comprehension ends; _retrieve_new_recommendations returns
\* when tracks is empty (line 86) and goes on with the loop of line 91
\* otherwise.
ReadMirror(t) ==
    /\ acall[t].pc = "l85"
    /\ LET c == acall[t]
       IN  IF c.j >= Len(tracks)
           THEN Moves(t, [c EXCEPT
                            !.j = 0,
                            !.i = Len(c.qtracks),
                            !.pc = IF c.qtracks = <<>> THEN "l76" ELSE "l94"])
           ELSE Moves(t, [c EXCEPT
                            !.j = c.j + 1,
                            !.qtracks = IF tracks[c.j + 1].source = "qobuz"
                                        THEN Append(c.qtracks, tracks[c.j + 1])
                                        ELSE c.qtracks])
    /\ UNCHANGED <<reporterState, autoplayFields>>

\* Lines 91-95, one turn of the loop: tracks[i] is collected when its id is
\* not in self.suggested_tracks; the loop ends before tracks[0] once five
\* are collected.
ScanStep(t) ==
    /\ acall[t].pc = "l94"
    /\ LET c == acall[t]
           five == IF c.qtracks[c.i].id \notin suggested_tracks
                   THEN Append(c.five, c.qtracks[c.i])
                   ELSE c.five
       IN  Moves(t, [c EXCEPT
                       !.five = five,
                       !.i = c.i - 1,
                       !.pc = IF c.i = 1 \/ Len(five) = AnalyseLimit THEN "l110"
                              ELSE "l94"])
    /\ UNCHANGED <<reporterState, autoplayFields>>

\* The request json with every entry of tracks listed as listened, the
\* analysed ones too.
RequestJsonListenedAll(qtracks, five) ==
    Request([i \in DOMAIN qtracks |-> ToInt(qtracks[i].id)],
            [k \in DOMAIN five |-> TrackMetaToAutoplay(five[k])])

\* Lines 97-108: the request json for the list tracks of line 85 and the
\* entries collected as five_tracks_to_analyse.
RequestJson(qtracks, five) ==
    LET tta_ids == {five[k].id : k \in DOMAIN five}
        RECURSIVE Listened(_)
        Listened(i) == IF i > Len(qtracks) THEN <<>>
                       ELSE IF qtracks[i].id \notin tta_ids
                            THEN <<ToInt(qtracks[i].id)>> \o Listened(i + 1)
                            ELSE Listened(i + 1)
    IN  Request(Listened(1), [k \in DOMAIN five |-> TrackMetaToAutoplay(five[k])])

\* Post with can_request_new cleared before the request is made.
PostDisarmsFirst(t, resp) ==
    /\ acall[t].pc = "l110"
    /\ can_request_new' = FALSE
    /\ LET c == [acall[t] EXCEPT !.request = RequestJson(acall[t].qtracks,
                                                         acall[t].five),
                                 !.fetched = resp,
                                 !.qtracks = <<>>, !.i = 0, !.five = <<>>]
       IN  IF resp.status # "ok"
           THEN Ends(t, c, TRUE)
           ELSE Moves(t, [c EXCEPT !.pc = "l123", !.track_ids = resp.ids])
    /\ UNCHANGED <<reporterState, tracks, remaining_tracks, suggested_tracks>>

\* Lines 97-121: the POST of dynamic/suggest and the reading of its
\* response, resp being how they end; a failure ends the call. No later
\* statement reads tracks, i or five_tracks_to_analyse.
Post(t, resp) ==
    /\ acall[t].pc = "l110"
    /\ LET c == [acall[t] EXCEPT !.request = RequestJson(acall[t].qtracks,
                                                         acall[t].five),
                                 !.fetched = resp,
                                 !.qtracks = <<>>, !.i = 0, !.five = <<>>]
       IN  IF resp.status # "ok"
           THEN Ends(t, c, TRUE)
           ELSE Moves(t, [c EXCEPT !.pc = "l123", !.track_ids = resp.ids])
    /\ UNCHANGED <<reporterState, autoplayFields>>

\* Line 123: self.remaining_tracks = track_ids
StoreBatch(t) ==
    /\ acall[t].pc = "l123"
    /\ remaining_tracks' = acall[t].track_ids
    /\ Moves(t, [acall[t] EXCEPT !.pc = "l124"])
    /\ UNCHANGED <<reporterState, tracks, suggested_tracks, can_request_new>>

\* Disarm leaving can_request_new as it is.
DisarmSkipped(t) ==
    /\ acall[t].pc = "l124"
    /\ Moves(t, [acall[t] EXCEPT !.pc = "l76"])
    /\ UNCHANGED <<reporterState, autoplayFields>>

\* Line 124: self.can_request_new = False
Disarm(t) ==
    /\ acall[t].pc = "l124"
    /\ can_request_new' = FALSE
    /\ Moves(t, [acall[t] EXCEPT !.pc = "l76"])
    /\ UNCHANGED <<reporterState, tracks, remaining_tracks, suggested_tracks>>

\* TestRefilled going on to line 80 whatever remaining_tracks holds.
TestRefilledAlwaysServes(t) ==
    /\ acall[t].pc = "l76"
    /\ Moves(t, [acall[t] EXCEPT !.pc = "l80"])
    /\ UNCHANGED <<reporterState, autoplayFields>>

\* Line 76: if not self.remaining_tracks
TestRefilled(t) ==
    /\ acall[t].pc = "l76"
    /\ IF remaining_tracks = <<>>
       THEN Ends(t, acall[t], FALSE)
       ELSE Moves(t, [acall[t] EXCEPT !.pc = "l80"])
    /\ UNCHANGED <<reporterState, autoplayFields>>

\* PopHead reading the head and leaving it in remaining_tracks.
PopHeadKeeps(t) ==
    /\ acall[t].pc = "l80"
    /\ IF remaining_tracks = <<>>
       THEN Ends(t, acall[t], TRUE)
       ELSE Moves(t, [acall[t] EXCEPT !.pc = "l81",
                                      !.recommended = Head(remaining_tracks)])
    /\ UNCHANGED <<reporterState, autoplayFields>>

\* PopHead taking the last id of remaining_tracks.
PopLast(t) ==
    /\ acall[t].pc = "l80"
    /\ IF remaining_tracks = <<>>
       THEN /\ Ends(t, acall[t], TRUE)
            /\ UNCHANGED remaining_tracks
       ELSE /\ remaining_tracks' = SubSeq(remaining_tracks, 1, Len(remaining_tracks) - 1)
            /\ Moves(t, [acall[t] EXCEPT
                           !.pc = "l81",
                           !.recommended = remaining_tracks[Len(remaining_tracks)]])
    /\ UNCHANGED <<reporterState, tracks, suggested_tracks, can_request_new>>

\* Line 80: recommended_track = self.remaining_tracks.pop(0); pop on a list
\* another thread emptied raises IndexError. (Were the list replaced by line
\* 123 of another thread between the reading of the attribute and the call
\* of pop, the head would be taken from the replaced list, which no thread
\* reads again: the outcome of this step taken before that line 123.)
PopHead(t) ==
    /\ acall[t].pc = "l80"
    /\ IF remaining_tracks = <<>>
       THEN /\ Ends(t, acall[t], TRUE)
            /\ UNCHANGED remaining_tracks
       ELSE /\ remaining_tracks' = Tail(remaining_tracks)
            /\ Moves(t, [acall[t] EXCEPT !.pc = "l81",
                                         !.recommended = Head(remaining_tracks)])
    /\ UNCHANGED <<reporterState, tracks, suggested_tracks, can_request_new>>

\* Line 81: self.suggested_tracks.add(recommended_track)
RecordSuggested(t) ==
    /\ acall[t].pc = "l81"
    /\ suggested_tracks' = suggested_tracks \cup {acall[t].recommended}
    /\ Moves(t, [acall[t] EXCEPT !.pc = "l82"])
    /\ UNCHANGED <<reporterState, tracks, remaining_tracks, can_request_new>>

\* Line 82: self.playqueue.add(self.track_browser.get_track_info(
\* [recommended_track])), lookup being how get_track_info ends.
PushTrack(t, lookup) ==
    /\ acall[t].pc = "l82"
    /\ IF lookup = "raises"
       THEN Ends(t, acall[t], TRUE)
       ELSE Ends(t, [acall[t] EXCEPT
                       !.adds = <<IF lookup = "found"
                                  THEN <<TrackInfo(acall[t].recommended)>>
                                  ELSE <<>>>>],
                 FALSE)
    /\ UNCHANGED <<reporterState, autoplayFields>>

\* The statements of the autoplay handlers thread t may run next.
AutoplayStep(t) ==
    \/ Extend(t)
    \/ Rearm(t)
    \/ DelTrack(t)
    \/ TestAnyQobuz(t)
    \/ ResetRearm(t)
    \/ ClearSuggested(t)
    \/ ClearRemaining(t)
    \/ TestRemaining(t)
    \/ TestCanRequest(t)
    \/ ReadMirror(t)
    \/ ScanStep(t)
    \/ \E resp \in Responses : Post(t, resp)
    \/ StoreBatch(t)
    \/ Disarm(t)
    \/ TestRefilled(t)
    \/ PopHead(t)
    \/ RecordSuggested(t)
    \/ \E lookup \in LookupOutcomes : PushTrack(t, lookup)

AutoplayNext ==
    \/ \E t \in Threads : \E e \in TracksAddedEvents \cup {WrongEvent} : AddTracks(t, e)
    \/ \E t \in Threads : \E e \in TracksRemovedEvents \cup {WrongEvent} :
         RemoveTracks(t, e)
    \/ \E t \in Threads : \E e \in {RequestMoreTracksEvent, WrongEvent} :
         AddRecommendation(t, e)
    \/ \E t \in Threads : AutoplayStep(t)

\* The autoplay engine on its own, from construction.
AutoplaySpec == Init /\ [][AutoplayNext]_vars

\* ------------------------------------- the batch fetch on long mirrors

\* Entry i of a mirror: a provider track with id i, a provider track with id
\* 1 again, or a track of another source.
FetchEntry(i, kind) ==
    IF kind = "new" THEN [source |-> "qobuz", id |-> PyStr(i)]
    ELSE IF kind = "again" THEN [source |-> "qobuz", id |-> PyStr(1)]
    ELSE [source |-> "local", id |-> PyStr(i)]
\* Three ways a play queue is filled: one track queued again and again with
\* another one after its first entry, tracks that all differ, and tracks of
\* another source among those of the provider.
FetchKind(pattern, i) ==
    CASE pattern = "repeated" -> IF i = 2 THEN "new" ELSE "again"
      [] pattern = "distinct" -> "new"
      [] pattern = "mixed" -> IF i \in {1, 3} THEN "local" ELSE "new"
\* Mirrors an add_recommendation call may find: the first n entries of such
\* a queue.
FetchMirrors ==
    {[i \in 1..n |-> FetchEntry(i, FetchKind(p, i))] :
        p \in {"repeated", "distinct", "mixed"}, n \in 0..MaxFetchMirror}

\* The engine as add_tracks, remove_tracks and add_recommendation calls left
\* it, a refill being due: the mirror is one of FetchMirrors, remaining_tracks
\* is empty, can_request_new is set, an id may have been served. No call is
\* in progress.
FetchInit ==
    /\ ReporterInit
    /\ tracks \in FetchMirrors
    /\ remaining_tracks = <<>>
    /\ suggested_tracks \in {{}, {PyInt(1)}}
    /\ can_request_new = TRUE
    /\ acall = [t \in Threads |-> NoAutoplayCall]
    /\ serial = TRUE
    /\ n_calls = 0
    /\ last_call = NoLastCall
    /\ pushed = <<>>
    /\ returned = <<>>
    /\ requests_since_change = 0
    /\ fetches_since_change = 0
    /\ n_remove_raised = 0
    /\ n_malformed = 0

\* The host has delivered fewer than MaxFetchCalls events.
FetchBudget == n_calls + Cardinality(Running) < MaxFetchCalls

FetchNext ==
    \/ \E t \in Threads : \E e \in TracksAddedEvents \cup {WrongEvent} :
         FetchBudget /\ AddTracks(t, e)
    \/ \E t \in Threads : \E e \in TracksRemovedEvents \cup {WrongEvent} :
         FetchBudget /\ RemoveTracks(t, e)
    \/ \E t \in Threads : \E e \in {RequestMoreTracksEvent, WrongEvent} :
         FetchBudget /\ AddRecommendation(t, e)
    \/ \E t \in Threads : AutoplayStep(t)

\* The three handlers statement by statement on two threads, from a state in
\* which a refill is due.
FetchSpec == FetchInit /\ [][FetchNext]_vars

\* ------------------------------ on_state_changed, call after call

\* The notifications the host delivers while one provider track is played:
\* the track playing, the player stopped, paused or in error.
PlayedEvents ==
    {e \in StateChangedEvents :
        /\ e.track \in {NoTrack, [source |-> "qobuz", id |-> SetupTrackId]}
        /\ (e.state = "PLAYING") => (e.track # NoTrack)}

\* The host delivers one more notification to on_state_changed, the calls
\* coming one after the other, on one thread.
Notify(event) ==
    /\ n_events < MaxNotifications
    /\ call[1].pc \in {"idle", "done"}
    /\ Enter(1, event)

NotifyNext ==
    \/ \E id \in TrackIds : GetTrackUrl(id)
    \/ \E e \in PlayedEvents : Notify(e)
    \/ Continue
    \/ \E r \in CallerReadings : CallGetLastDuration(r)
    \/ Worker
    \/ Shutdown

\* The reporter while one track is played: up to MaxNotifications
\* notifications handled statement by statement, with the sender, shutdown(),
\* a call of get_last_duration() from outside and the client's
\* get_track_url.
NotifySpec == LateInit /\ [][NotifyNext]_vars

\* ---------------------------------- the four handlers on two threads

\* Thread t is inside a handler call.
Busy(t) == call[t].pc \notin {"idle", "done"} \/ acall[t].pc # "idle"
\* Number of calls the host has made into the plugin: events delivered to
\* the four handlers, get_track_url requests (each stores one more key),
\* shutdown() and get_last_duration().
Dispatched ==
    n_events + Cardinality({t \in Threads : call[t].pc \notin {"idle", "done"}})
        + n_calls + Cardinality(Running)
        + Cardinality(cache \ {SetupTrackId})
        + (IF shutdown_pc # "idle" THEN 1 ELSE 0)
        + (IF call[Caller].pc # "idle" THEN 1 ELSE 0)
\* The host may make one more call.
CanDispatch == Dispatched < MaxDispatched

\* Payloads the host hands to on_state_changed: the track of test_secret
\* playing, the player stopped, and a payload of another type.
DispatchedStateEvents ==
    {e \in PlayedEvents : e.state \in {"PLAYING", "STOPPED"}} \cup OtherEvents
\* Payloads it hands to the autoplay handlers: one track added, the first
\* entry removed, a request for more tracks, and a StateChangedEvent.
AutoplayEvents ==
    {e \in TracksAddedEvents : Len(e.tracks) = 1}
        \cup {e \in TracksRemovedEvents : e.indices = <<0>>}
        \cup {RequestMoreTracksEvent, WrongEvent}

\* The host calls on_state_changed(event) on thread t, whatever the other
\* thread is doing.
DispatchOnStateChanged(t, event) ==
    /\ CanDispatch
    /\ ~Busy(t)
    /\ Enter(t, event)

\* The host calls add_tracks(event) on thread t.
DispatchAddTracks(t, event) ==
    /\ CanDispatch
    /\ ~Busy(t)
    /\ AddTracks(t, event)

\* The host calls remove_tracks(event) on thread t.
DispatchRemoveTracks(t, event) ==
    /\ CanDispatch
    /\ ~Busy(t)
    /\ RemoveTracks(t, event)

\* The host calls add_recommendation(event) on thread t.
DispatchAddRecommendation(t, event) ==
    /\ CanDispatch
    /\ ~Busy(t)
    /\ AddRecommendation(t, event)

\* The host asks the client for the stream URL of a track.
DispatchGetTrackUrl(id) ==
    /\ CanDispatch
    /\ GetTrackUrl(id)

\* A caller outside on_state_changed calls get_last_duration().
DispatchGetLastDuration(r) ==
    /\ CanDispatch
    /\ CallGetLastDuration(r)

\* The host calls shutdown().
DispatchShutdown ==
    /\ CanDispatch
    /\ ShutdownSetFlag

DispatchNext ==
    \/ \E t \in Threads : \E e \in DispatchedStateEvents : DispatchOnStateChanged(t, e)
    \/ \E t \in Threads : \E e \in AutoplayEvents : DispatchAddTracks(t, e)
    \/ \E t \in Threads : \E e \in AutoplayEvents : DispatchRemoveTracks(t, e)
    \/ \E t \in Threads : \E e \in AutoplayEvents : DispatchAddRecommendation(t, e)
    \/ \E id \in TrackIds : DispatchGetTrackUrl(id)
    \/ \E r \in CallerReadings : DispatchGetLastDuration(r)
    \/ DispatchShutdown
    \/ Continue
    \/ \E t \in Threads : AutoplayStep(t)
    \/ Worker
    \/ ShutdownPutSentinel
    \/ ShutdownJoin

\* The plugin as module_setup.py wires it: the host makes up to MaxDispatched
\* calls into it (events delivered to the four subscribed handlers on two
\* threads, get_track_url, get_last_duration(), shutdown()), a call beginning
\* whatever the other threads are doing; the statements of the calls and of
\* the sender interleave (the code takes no lock).
DispatchSpec == LateInit /\ [][DispatchNext]_vars

\* ------------------------------------------------------------- claims

Kind(m) == <<m.endpoint, m.track_id>>
Kinds(items) == [i \in 1..Len(items) |-> Kind(items[i])]
StartOf(id) == <<EndpointStart, StrToInt[id]>>
EndOf(id) == <<EndpointEnd, StrToInt[id]>>
Playing(id) ==
    [type |-> "StateChangedEvent", state |-> "PLAYING",
     track |-> [source |-> "qobuz", id |-> id]]
Range(f) == {f[i] : i \in DOMAIN f}
\* Position of the stop sentinel among the items put (0 when it was not put).
SentinelIdx ==
    IF \E i \in DOMAIN enqueued : enqueued[i] = StopSentinel
    THEN CHOOSE i \in DOMAIN enqueued : enqueued[i] = StopSentinel
    ELSE 0
\* The messages POSTed are the first reports put, in the order of the puts.
PostedInOrder ==
    /\ Len(posted) <= Len(Reports(enqueued))
    /\ \A i \in DOMAIN posted : posted[i] = Reports(enqueued)[i]
\* Between two starts of a log lies an end of the track started first.
EndBeforeNextStart(log) ==
    \A i, j \in DOMAIN log :
        (i < j /\ log[i].endpoint = EndpointStart /\ log[j].endpoint = EndpointStart)
        => \E k \in DOMAIN log :
              /\ i < k
              /\ k < j
              /\ log[k].endpoint = EndpointEnd
              /\ log[k].track_id = log[i].track_id
\* Positions of the starts of a log that no later end of the same track follows.
UnmatchedStarts(log) ==
    {i \in DOMAIN log :
        /\ log[i].endpoint = EndpointStart
        /\ ~\E k \in DOMAIN log :
              k > i /\ log[k].endpoint = EndpointEnd /\ log[k].track_id = log[i].track_id}

\* C1: from a fresh reporter, PLAYING(a) then PLAYING(b), a # b, both in the
\* cache when the call is made, leave exactly Start(a), End(a), Start(b)
\* enqueued when the second call returns, and a report is enqueued only by
\* a thread that stands at a put of on_state_changed.
C1_StartEndStart ==
    [][/\ \A a, b \in TrackIds :
            ( /\ a # b
              /\ n_events = 1
              /\ last_event.event = Playing(a)
              /\ a \in last_event.cache0
              /\ n_events' = 2
              /\ last_event'.event = Playing(b)
              /\ b \in last_event'.cache0 )
            => Kinds(Reports(enqueued')) = <<StartOf(a), EndOf(a), StartOf(b)>>
       /\ (Reports(enqueued') # Reports(enqueued))
          => (\E t \in Threads : call[t].pc = "put")]_vars
C1_Witness ==
    /\ n_events = 2
    /\ last_event.event = Playing(SetupTrackId)
    /\ SetupTrackId \in last_event.cache0
    /\ last_event.puts = <<EndOf("1"), StartOf(SetupTrackId)>>
    /\ Kinds(Reports(enqueued)) = <<StartOf("1"), EndOf("1"), StartOf(SetupTrackId)>>
    /\ shutdown_pc = "idle"

\* C2: at the step (line 72) that moves tracking from a track t to another
\* provider track u, the last report put is End(t) and no Start(u) follows
\* it yet; a Start is put only for the track in current_track_id; between
\* two starts put there is an end of the earlier track; and the worker POSTs
\* the messages in the order they were put.
C2_EndBeforeNextStart ==
    [][/\ ( /\ current_track_id # None
            /\ current_track_id' \notin {None, current_track_id} )
          => ( /\ Reports(enqueued) # <<>>
               /\ Kind(Reports(enqueued)[Len(Reports(enqueued))])
                     = EndOf(current_track_id)
               /\ enqueued' = enqueued )
       /\ \A i \in DOMAIN enqueued' :
             (i > Len(enqueued) /\ enqueued'[i].endpoint = EndpointStart)
             => ( /\ current_track_id \in TrackIds
                  /\ Kind(enqueued'[i]) = StartOf(current_track_id) )
       /\ EndBeforeNextStart(Reports(enqueued'))
       /\ EndBeforeNextStart(posted')
       /\ PostedInOrder']_vars
C2_Witness ==
    \E i \in DOMAIN posted :
        /\ i + 1 \in DOMAIN posted
        /\ Kind(posted[i]) = EndOf("1")
        /\ Kind(posted[i + 1]) = StartOf(SetupTrackId)

\* C3 as stated, on the runs where every report could be built (no call
\* raised) and in the states where no call is in progress: current_track_id
\* is non-null exactly when a Start has been enqueued that no later End of
\* the same track matches.
C3_Original ==
    (n_raised = 0 /\ \A t \in Threads : call[t].pc \in {"idle", "done"})
    => ((current_track_id # None) <=> (UnmatchedStarts(Reports(enqueued)) # {}))
\* C3 amended: a Start enqueued with no End of its track after it is the
\* Start of the track in current_track_id (which is then non-null).
C3_UnmatchedStartIsTracked ==
    \A i \in UnmatchedStarts(Reports(enqueued)) :
        /\ current_track_id \in TrackIds
        /\ StrToInt[current_track_id] = Reports(enqueued)[i].track_id
C3_Witness ==
    /\ current_track_id = SetupTrackId
    /\ Kinds(Reports(enqueued)) = <<StartOf("1"), EndOf("1"), StartOf(SetupTrackId)>>
    /\ UnmatchedStarts(Reports(enqueued)) = {3}

\* C4: once shutdown() has returned the worker has terminated, and no POST
\* is issued from then on, whatever notifications are handled afterwards.
C4_NoPostAfterShutdown ==
    [][/\ (shutdown_pc' = "returned") => (worker_pc' = "done")
       /\ (shutdown_pc = "returned") => (posted' = posted /\ n_attempts' = n_attempts)]_vars
C4_Witness ==
    /\ shutdown_pc = "returned"
    /\ \E j \in DOMAIN enqueued : j > SentinelIdx /\ enqueued[j] # StopSentinel
    /\ Len(posted) > 0

\* C5 as stated: when the worker has terminated, every report enqueued
\* before shutdown() was called has been dequeued and has had its delivery
\* attempt.
C5_Original ==
    (worker_pc = "done")
    => (Len(posted) >= n_at_shutdown /\ n_attempts >= n_at_shutdown)
\* C5 amended: the worker terminates only after shutdown() cleared
\* _isRunning, and never between dequeuing a message and the end of its
\* delivery attempt; when it terminates by dequeuing the sentinel, the
\* messages POSTed are exactly the reports put before the sentinel.
C5_ExitBySentinelOrFlag ==
    (worker_pc = "done")
    => /\ ~isRunning
       /\ n_attempts = Len(posted)
       /\ (message = StopSentinel)
          => (posted = Reports(SubSeq(enqueued, 1, SentinelIdx)))
C5_Witness ==
    /\ worker_pc = "done"
    /\ message # StopSentinel
    /\ n_at_shutdown > Len(posted)
    /\ Len(posted) > 0

\* C6 as stated: once shutdown() has been called, a notification adds no
\* report to the delivery queue.
C6_Original ==
    [][(shutdown_pc # "idle") => (Reports(enqueued') = Reports(enqueued))]_vars
\* C6 amended: a report put after the stop sentinel stays in the queue: it is
\* never dequeued and never POSTed.
C6_AfterSentinelNeverSent ==
    (SentinelIdx > 0)
    => \A j \in DOMAIN enqueued :
          (j > SentinelIdx)
          => /\ enqueued[j] \in Range(mqueue)
             /\ enqueued[j] \notin Range(posted)
             /\ enqueued[j] # message
C6_Witness ==
    /\ SentinelIdx > 0
    /\ Len(enqueued) > SentinelIdx
    /\ worker_pc = "done"
    /\ shutdown_pc = "join"

\* C7: a shutdown() that was called returns, for any queue content and any
\* position of the worker (FairSpec).
C7_ShutdownReturns == (shutdown_pc # "idle") ~> (shutdown_pc = "returned")
C7_Witness ==
    /\ shutdown_pc = "returned"
    /\ Reports(mqueue) # <<>>
    /\ n_attempts > n_at_shutdown

\* C8: every message is dequeued and POSTed at most once; whatever the
\* outcome of the POST, the message is neither put back nor POSTed again,
\* and the worker goes on to the sleep and the following messages.
C8_AtMostOnce ==
    [][/\ (n_attempts' = n_attempts + 1)
          => (worker_pc' = "sleep" /\ mqueue' = mqueue /\ posted' = posted)
       /\ \A i, j \in DOMAIN posted' : (posted'[i].uid = posted'[j].uid) => (i = j)
       /\ Range(posted') \cap Range(mqueue') = {}
       /\ Len(posted') + Len(Reports(mqueue')) <= Len(Reports(enqueued'))]_vars
C8_Witness ==
    /\ n_attempts = 1
    /\ last_outcome = "failure"
    /\ Len(posted) = 2

\* C9: at most one POST is in flight, and a POST that follows an earlier
\* attempt is issued after one whole sleep of REPORTS_PER_SEC_LIMIT seconds,
\* whatever the outcome of that attempt.
C9_ThrottleBetweenPosts ==
    /\ Len(posted) = n_attempts + (IF worker_pc = "post" THEN 1 ELSE 0)
    /\ (worker_pc = "post" /\ n_attempts >= 1)
       => (since_attempt = REPORTS_PER_SEC_LIMIT)
C9_Witness ==
    /\ worker_pc = "post"
    /\ n_attempts = 1
    /\ last_outcome = "exception"
    /\ since_attempt = REPORTS_PER_SEC_LIMIT

\* C10 as stated: a notification whose report could not be built (the
\* handler raised) leaves current_track_id as it was.
C10_Original ==
    [][(n_events' = n_events + 1 /\ last_event'.raised)
       => (current_track_id' = last_event'.cur0)]_vars

\* C11: when PLAYING(u) is notified for a provider track u that is in the
\* cache while the tracked track t is not in the cache, the end report of t
\* is dropped, the start report of u is still enqueued, current_track_id
\* becomes u and on_state_changed does not raise.
C11_Original ==
    [][\A t, u \in TrackIds :
         ( /\ n_events' = n_events + 1
           /\ last_event'.cur0 = t
           /\ t \notin cache'
           /\ u # t
           /\ u \in last_event'.cache0
           /\ last_event'.event = Playing(u) )
         => ( /\ current_track_id' = u
              /\ ~last_event'.raised
              /\ last_event'.puts = <<StartOf(u)>> )]_vars

\* The statements that put an end report (lines 63, 84, and 96 or 108).
EndSites == {"l63", "l84", "l96"}

\* C12: every end report on the delivery queue has a duration >= 0, whatever
\* the clock readings and however the statements of on_state_changed, of a
\* get_last_duration() called from outside and of the sender interleave. At
\* line 28 of a get_last_duration() called for an end report, time_played is
\* not above 0 when the reading of line 27 lies before last_report_time (as
\* another thread left it), and otherwise the whole seconds between the two,
\* or one more when the division rounds up. The statement that puts the
\* report then puts it, for a tracked track that is in the cache, with
\* duration 0 when time_played is negative and with time_played otherwise.
C12_DurationNonNegative ==
    [][/\ \A i \in DOMAIN enqueued' :
             (enqueued'[i] # StopSentinel) => (enqueued'[i].duration >= 0)
       /\ \A t \in Threads :
             (call[t].pc = "l28" /\ call'[t].pc = "l29" /\ call[t].site \in EndSites)
             => LET d == Minus(call[t].report_time, last_report_time)
                    tp == call'[t].time_played
                IN  IF d.neg THEN tp <= 0
                    ELSE /\ tp \in {d.mag.s, d.mag.s + 1}
                         /\ (d.mag.ns = 0 \/ d.mag.s < 16777216) => (tp = d.mag.s)
       /\ \A t \in Threads :
             ( /\ call[t].pc = "put"
               /\ call'[t].pc # "put"
               /\ call[t].site \in EndSites
               /\ call[t].arg \in cache )
             => /\ Len(enqueued') = Len(enqueued) + 1
                /\ Kind(enqueued'[Len(enqueued')]) = EndOf(call[t].arg)
                /\ enqueued'[Len(enqueued')].duration =
                      (IF call[t].time_played < 0 THEN 0 ELSE call[t].time_played)]_vars
\* A get_last_duration() from outside stored a later reading between lines
\* 27 and 28 of the call that stops the track: time_played is negative and
\* the end report was put with duration 0.
C12_Witness ==
    /\ call[1].pc = "l104"
    /\ call[1].time_played < 0
    /\ enqueued # <<>>
    /\ enqueued[Len(enqueued)] # StopSentinel
    /\ Kind(enqueued[Len(enqueued)]) = EndOf(SetupTrackId)
    /\ enqueued[Len(enqueued)].duration = 0

\* C13: an add_recommendation call made while the mirror holds no provider
\* track calls PlayQueue.add not at all and POSTs no batch-fetch request
\* (stated for runs whose TracksRemovedEvents all carried distinct positions
\* of the mirror).
C13_Original ==
    [][( /\ n_calls' = n_calls + 1
         /\ n_malformed = 0
         /\ last_call'.op = "add_recommendation"
         /\ ~HasAnyQobuzTracks(last_call'.before.tracks) )
       => ( /\ last_call'.adds = <<>>
            /\ last_call'.request = NoRequest )]_vars

\* C14: after a remove_tracks event that leaves no provider track in the
\* mirror, remaining_tracks and suggested_tracks are empty and
\* can_request_new is true; after one that leaves a provider track,
\* remaining_tracks and suggested_tracks are as before (stated for events
\* carrying distinct positions of the mirror).
C14_Original ==
    [][( /\ n_calls' = n_calls + 1
         /\ last_call'.op = "remove_tracks"
         /\ last_call'.typed
         /\ n_malformed' = 0 )
       => IF ~HasAnyQobuzTracks(tracks')
          THEN /\ remaining_tracks' = <<>>
               /\ suggested_tracks' = {}
               /\ can_request_new'
          ELSE /\ remaining_tracks' = last_call'.before.remaining_tracks
               /\ suggested_tracks' = last_call'.before.suggested_tracks]_vars

\* Number of times x occurs in the sequence s.
Count(s, x) == Cardinality({i \in DOMAIN s : s[i] = x})

\* A handler call made the step: thread t ran a statement of its call.
Stepped(t) ==
    /\ acall[t].pc # "idle"
    /\ \/ acall'[t].pc # acall[t].pc
       \/ acall'[t].j # acall[t].j
       \/ acall'[t].i # acall[t].i
       \/ acall'[t].todo # acall[t].todo
\* The step leaves the four fields of the engine as they are.
FieldsKept == UNCHANGED <<tracks, remaining_tracks, suggested_tracks, can_request_new>>

\* C15 as stated: no id is given to PlayQueue.add twice unless all provider
\* tracks were removed from the mirror in between (stated for runs in which
\* the events are delivered one at a time and no remove_tracks call raised,
\* where every such removal clears suggested_tracks).
C15_Original ==
    (serial /\ Running = {} /\ n_remove_raised = 0) => NoDup(pushed)
\* C15: when the events are delivered one at a time (no handler call begins
\* while another is in progress; the code takes no lock, and nothing is
\* stated for calls that overlap), then in every state between two calls:
\* since suggested_tracks was last cleared no id was pushed more often than
\* the provider returned it, every pushed id is in suggested_tracks, and the
\* ids pushed and the ids waiting in remaining_tracks are together no more
\* than the ids returned. (add_recommendation serves the ids of the
\* responses as they come and never compares them with suggested_tracks, so
\* an id returned twice is pushed twice.)
C15_PushedAsReturned ==
    (serial /\ Running = {})
    => /\ \A n \in CatalogIds : Count(pushed, PyInt(n)) <= Count(returned, PyInt(n))
       /\ Range(pushed) \subseteq suggested_tracks
       /\ Len(pushed) + Len(remaining_tracks) <= Len(returned)
C15_Witness ==
    /\ n_remove_raised = 0
    /\ Count(pushed, PyInt(1)) = 2
    /\ Count(returned, PyInt(1)) = 2

\* Positions of the provider entries of the mirror ts whose track id is not
\* among the served ids, whatever the type the id is held in.
NotServed(ts, served) ==
    {p \in DOMAIN ts : ts[p].source = "qobuz"
                        /\ \A x \in served : x.n # ts[p].id.n}
\* The (up to) AnalyseLimit positions of P nearest the newest end, newest
\* first.
NewestFirst(P) ==
    LET chosen == {p \in P : Cardinality({q \in P : q > p}) < AnalyseLimit}
    IN  [k \in 1..Cardinality(chosen) |->
            CHOOSE p \in chosen : Cardinality({q \in chosen : q > p}) = k - 1]

\* C16: the tracks a batch fetch sends for analysis are the (up to) 5 provider
\* entries of the mirror nearest its newest end whose track id is not in
\* suggested_tracks, newest first; an entry whose id add_recommendation
\* served earlier is not among them.
C16_Original ==
    [][( /\ n_calls' = n_calls + 1
         /\ last_call'.request # NoRequest )
       => LET ts == last_call'.before.tracks
              sel == NewestFirst(NotServed(ts, last_call'.before.suggested_tracks))
          IN  last_call'.request.track_to_analysed =
                 [k \in DOMAIN sel |-> [track_id |-> ToInt(ts[sel[k]].id)]]]_vars

\* The entries of the mirror ts that are of the provider, oldest first.
QobuzEntries(ts) == SelectSeq(ts, LAMBDA x : x.source = "qobuz")
\* The track ids, as JSON numbers, of the entries of s.
IdsOf(s) == {ToInt(s[k].id) : k \in DOMAIN s}
\* Thread t stands before the POST of line 110; the request it is about to
\* send, and the positions of the list tracks of line 85 that the loop of
\* lines 91-95 collected.
Posting(t) == acall[t].pc = "l110"
RequestOf(t) == RequestJson(acall[t].qtracks, acall[t].five)
AnalysedPositions(t) ==
    {p \in DOMAIN acall[t].qtracks :
        p > acall[t].i /\ acall[t].qtracks[p].id \notin suggested_tracks}
AnalysedIds(t) ==
    {RequestOf(t).track_to_analysed[k].track_id :
        k \in DOMAIN RequestOf(t).track_to_analysed}
ListenedIds(t) == Range(RequestOf(t).listened_tracks_ids)

\* C17 as stated, for a request made while no other handler call is in
\* progress: the analysed entries and the listened ids partition the provider
\* entries of the mirror: every provider entry that is not analysed has its
\* id in listened_tracks_ids, no analysed id is in listened_tracks_ids, and
\* every id sent comes from a provider entry.
C17_Original ==
    \A t \in Threads :
        (serial /\ Posting(t))
        => /\ acall[t].qtracks = QobuzEntries(tracks)
           /\ \A p \in DOMAIN acall[t].qtracks \ AnalysedPositions(t) :
                 ToInt(acall[t].qtracks[p].id) \in ListenedIds(t)
           /\ AnalysedIds(t) \cap ListenedIds(t) = {}
           /\ AnalysedIds(t) \cup ListenedIds(t) = IdsOf(acall[t].qtracks)
\* C17: the partition is one of track ids, and of the entries that line 85
\* read. In every request, whatever other calls run meanwhile:
\* listened_tracks_ids lists, once per entry, the ids of the entries of
\* tracks (the provider entries the comprehension of line 85 was handed)
\* whose id is not an analysed id; no analysed id is listed; the analysed
\* entries are entries of tracks, at most AnalyseLimit of them; every entry
\* of tracks is of the provider; the request POSTed is the one built from
\* tracks and five_tracks_to_analyse. An entry that is not analysed but
\* carries the id of an analysed entry is in neither list. When no other
\* handler call runs during the call, tracks holds exactly the provider
\* entries of the mirror, in its order, and the analysed entries are the
\* newest of them that the loop of lines 91-95 collected.
C17_PartitionOfIds ==
    [][\A t \in Threads :
         Posting(t)
         => LET q == acall[t].qtracks
                five == acall[t].five
                req == RequestOf(t)
            IN  /\ ListenedIds(t) = IdsOf(q) \ AnalysedIds(t)
                /\ Len(req.listened_tracks_ids)
                      = Cardinality({p \in DOMAIN q : ToInt(q[p].id) \notin AnalysedIds(t)})
                /\ AnalysedIds(t) = IdsOf(five)
                /\ Len(req.track_to_analysed) = Len(five)
                /\ Len(five) <= AnalyseLimit
                /\ \A k \in DOMAIN five : \E p \in DOMAIN q : five[k] = q[p]
                /\ \A p \in DOMAIN q : q[p].source = "qobuz"
                /\ req.limit = AmountToRequest
                /\ (acall'[t].pc = "l123") => (acall'[t].request = req)
                /\ (serial /\ acall'[t].pc = "idle") => (last_call'.request = req)
                /\ serial
                   => /\ q = QobuzEntries(tracks)
                      /\ LET sel == NewestFirst(AnalysedPositions(t))
                         IN  five = [k \in DOMAIN sel |-> q[sel[k]]]]_vars
\* One track queued seven times with another one after its first entry: the
\* five newest entries are analysed, the other track is listened, and the
\* oldest entry, which carries the analysed id, is in neither list.
C17_Witness ==
    \E t \in Threads :
        /\ serial
        /\ Posting(t)
        /\ Len(acall[t].qtracks) = 7
        /\ Cardinality(AnalysedPositions(t)) = AnalyseLimit
        /\ RequestOf(t).listened_tracks_ids = <<PyInt(2)>>
        /\ \E p \in DOMAIN acall[t].qtracks \ AnalysedPositions(t) :
              ToInt(acall[t].qtracks[p].id) \in AnalysedIds(t)

\* C18 as stated, for events delivered one at a time: between two
\* batch-fetch requests lies an add_tracks or remove_tracks event: since the
\* last such event at most one request was POSTed.
C18_Original ==
    serial => (requests_since_change <= 1)
\* C18: a call goes on to the batch fetch only from line 73, having read
\* can_request_new true there and remaining_tracks empty at line 72, and
\* only line 124, after a request that succeeded, clears can_request_new.
\* When the events are delivered one at a time (no handler call begins while
\* another is in progress): between two batch fetches that succeeded lies an
\* add_tracks or remove_tracks event, and after one that succeeded no request
\* is POSTed before such an event; a request that failed leaves
\* can_request_new true, and the next add_recommendation call POSTs again.
\* (The code takes no lock: two overlapping add_recommendation calls can both
\* pass lines 72-73 and both POST.)
C18_OneFetchPerChange ==
    [][/\ \A t \in Threads :
             (acall'[t].pc = "l85" /\ acall[t].pc # "l85")
             => (acall[t].pc = "l73" /\ can_request_new)
       /\ \A t \in Threads :
             (acall'[t].pc = "l73" /\ acall[t].pc # "l73")
             => (acall[t].pc = "l72" /\ remaining_tracks = <<>>)
       /\ (can_request_new /\ ~can_request_new')
          => \E t \in Threads : acall[t].pc = "l124" /\ Stepped(t)
       /\ fetches_since_change' <= 1
       /\ ( /\ fetches_since_change = 1
            /\ n_calls' = n_calls + 1
            /\ last_call'.op = "add_recommendation" )
          => last_call'.request = NoRequest
       /\ (n_calls' = n_calls + 1 /\ last_call'.fetched.status = "failed")
          => (last_call'.before.can_request_new /\ can_request_new')]_vars
C18_Witness ==
    /\ requests_since_change = 2
    /\ fetches_since_change = 1
    /\ last_call.op = "add_recommendation"
    /\ last_call.request = NoRequest

\* What a call that fetched a batch leaves of it: the ids returned, less the
\* head that the same call served.
LeftOfBatch(ids) == IF ids = <<>> THEN <<>> ELSE Tail(ids)
IsCall(op) == n_calls' = n_calls + 1 /\ last_call'.op = op /\ last_call'.typed

\* C19 as stated, for events delivered one at a time: a successful batch
\* fetch sets remaining_tracks to the ids returned and can_request_new to
\* false; add_recommendation calls leave can_request_new false; every
\* add_tracks and every remove_tracks event sets it to true (stated for calls
\* that return normally).
C19_Original ==
    [][/\ (IsCall("add_recommendation") /\ last_call'.fetched.status = "ok")
          => ( /\ remaining_tracks' = LeftOfBatch(last_call'.fetched.ids)
               /\ ~can_request_new' )
       /\ (IsCall("add_recommendation") /\ ~last_call'.before.can_request_new)
          => ~can_request_new'
       /\ ((IsCall("add_tracks") \/ IsCall("remove_tracks")) /\ ~last_call'.raised)
          => can_request_new']_vars
\* C19: line 123 stores the ids returned as remaining_tracks and line 124
\* clears can_request_new; line 49 of add_tracks sets it; remove_tracks sets
\* it only at line 60, which it reaches when the scan of line 59 met no
\* provider entry. When the events are delivered one at a time (no handler
\* call begins while another is in progress): as stated for the fetch and
\* for add_recommendation; every add_tracks event sets can_request_new to
\* true; a remove_tracks event sets it to true when it returns normally and
\* leaves no provider track in the mirror, and leaves it as it was otherwise.
C19_RearmedByAddOrReset ==
    [][/\ \A t \in Threads :
             /\ (Stepped(t) /\ acall[t].pc = "l110" /\ acall'[t].pc = "l123")
                => (acall'[t].track_ids = acall'[t].fetched.ids)
             /\ (Stepped(t) /\ acall[t].pc = "l123")
                => (remaining_tracks' = acall[t].track_ids)
             /\ (Stepped(t) /\ acall[t].pc = "l124") => ~can_request_new'
             /\ (Stepped(t) /\ acall[t].pc \in {"l49", "l60"}) => can_request_new'
             /\ (Stepped(t) /\ acall[t].pc \notin {"l49", "l60", "l124"})
                => (can_request_new' = can_request_new)
             /\ (acall'[t].pc = "l60" /\ acall[t].pc # "l60")
                => (acall[t].pc = "l59" /\ acall[t].j >= Len(tracks))
       /\ (IsCall("add_recommendation") /\ last_call'.fetched.status = "ok")
          => ( /\ remaining_tracks' = LeftOfBatch(last_call'.fetched.ids)
               /\ ~can_request_new' )
       /\ (IsCall("add_recommendation") /\ ~last_call'.before.can_request_new)
          => ~can_request_new'
       /\ IsCall("add_tracks") => can_request_new'
       /\ IsCall("remove_tracks")
          => (can_request_new' <=>
                (last_call'.before.can_request_new
                   \/ (~last_call'.raised /\ ~HasAnyQobuzTracks(tracks'))))]_vars
C19_Witness ==
    /\ last_call.op = "remove_tracks"
    /\ last_call.typed
    /\ ~last_call.raised
    /\ HasAnyQobuzTracks(tracks)
    /\ ~can_request_new
    /\ remaining_tracks # <<>>

\* remaining_tracks as add_recommendation finds it after the optional
\* refill, in the step being taken (the empty sequence when the refill
\* failed or was not made).
AfterRefill ==
    IF last_call'.before.remaining_tracks # <<>> THEN last_call'.before.remaining_tracks
    ELSE IF last_call'.fetched.status = "ok" THEN last_call'.fetched.ids
    ELSE <<>>
\* The track reference PlayQueue.add receives for the id x.
Reference(x) == [source |-> "qobuz", id |-> PyStr(x.n)]

\* C20 as stated, for events delivered one at a time: an add_recommendation
\* call that finds remaining_tracks non-empty after the optional refill
\* removes its head, adds it to suggested_tracks and calls PlayQueue.add
\* exactly once, with that one track; no batch fetch is made while
\* remaining_tracks is non-empty.
C20_Original ==
    [][(IsCall("add_recommendation") /\ AfterRefill # <<>>)
       => ( /\ remaining_tracks' = Tail(AfterRefill)
            /\ suggested_tracks' =
                  last_call'.before.suggested_tracks \cup {Head(AfterRefill)}
            /\ last_call'.adds = <<<<Reference(Head(AfterRefill))>>>>
            /\ (last_call'.before.remaining_tracks # <<>>)
               => (last_call'.request = NoRequest) )]_vars
\* C20: line 80 removes the head of remaining_tracks, line 81 adds the id
\* removed to suggested_tracks, line 82 looks that id up and hands what the
\* lookup returned to PlayQueue.add, once. When the events are delivered one
\* at a time (no handler call begins while another is in progress), such a
\* call removes the head and adds it to suggested_tracks, then looks the
\* track up: when the lookup raises, the call raises and PlayQueue.add is
\* not called; otherwise PlayQueue.add is called exactly once, with that one
\* track or, when the lookup found no item, with an empty list. The ids
\* served follow the order of the batch, and no batch fetch is made while
\* remaining_tracks is non-empty.
C20_HeadServedAfterLookup ==
    [][/\ \A t \in Threads :
             /\ (Stepped(t) /\ acall[t].pc = "l80" /\ remaining_tracks # <<>>)
                => ( /\ remaining_tracks' = Tail(remaining_tracks)
                     /\ acall'[t].recommended = Head(remaining_tracks)
                     /\ acall'[t].pc = "l81" )
             /\ (Stepped(t) /\ acall[t].pc = "l81")
                => ( /\ suggested_tracks' = suggested_tracks \cup {acall[t].recommended}
                     /\ acall'[t].pc = "l82" )
             /\ (Stepped(t) /\ acall[t].pc = "l82")
                => ( /\ acall'[t].pc = "idle"
                     /\ serial
                        => last_call'.adds \in {<<>>, <<<<>>>>,
                                                <<<<Reference(acall[t].recommended)>>>>} )
       /\ (IsCall("add_recommendation") /\ AfterRefill # <<>>)
          => ( /\ remaining_tracks' = Tail(AfterRefill)
            /\ suggested_tracks' =
                  last_call'.before.suggested_tracks \cup {Head(AfterRefill)}
            /\ IF last_call'.raised THEN last_call'.adds = <<>>
               ELSE last_call'.adds \in {<<<<Reference(Head(AfterRefill))>>>>, <<<<>>>>}
            /\ (last_call'.before.remaining_tracks # <<>>)
               => (last_call'.request = NoRequest) )]_vars
C20_Witness ==
    /\ last_call.op = "add_recommendation"
    /\ last_call.raised
    /\ last_call.request = NoRequest
    /\ returned = <<PyInt(2), PyInt(1)>>
    /\ pushed = <<PyInt(2)>>
    /\ suggested_tracks = {PyInt(1), PyInt(2)}
    /\ remaining_tracks = <<>>

\* The three cases in which add_recommendation finds remaining_tracks empty
\* after the optional refill, in the step being taken: the refill is not
\* allowed, the mirror holds no provider track, the provider returned an
\* empty batch.
StillEmpty ==
    /\ last_call'.before.remaining_tracks = <<>>
    /\ \/ ~last_call'.before.can_request_new
       \/ ~HasAnyQobuzTracks(last_call'.before.tracks)
       \/ (last_call'.fetched.status = "ok" /\ last_call'.fetched.ids = <<>>)

\* C21: an add_recommendation call that finds remaining_tracks empty at
\* line 76 returns there without raising, and no statement it ran wrote the
\* mirror or suggested_tracks or called PlayQueue.add; remaining_tracks it
\* wrote only at line 123, with the batch it had read. So when the
\* events are delivered one at a time (no handler call begins while another
\* is in progress), a call that finds remaining_tracks empty after the
\* optional refill (refill not allowed, no provider track in the mirror, or
\* an empty batch returned) raises nothing, calls PlayQueue.add not at all,
\* and leaves tracks, remaining_tracks and suggested_tracks as they were; a
\* request is POSTed only in the third case.
C21_NoOpWhenStillEmpty ==
    [][/\ \A t \in Threads :
             /\ (Stepped(t) /\ acall[t].pc \in {"l72", "l73", "l85", "l94", "l110", "l76"})
                => FieldsKept
             /\ (Stepped(t) /\ acall[t].pc = "l123")
                => ( /\ remaining_tracks' = acall[t].track_ids
                     /\ UNCHANGED <<tracks, suggested_tracks>> )
             /\ (Stepped(t) /\ acall[t].pc = "l124")
                => UNCHANGED <<tracks, remaining_tracks, suggested_tracks>>
             /\ (Stepped(t) /\ acall[t].pc = "l76" /\ remaining_tracks = <<>>)
                => ( /\ acall'[t].pc = "idle"
                     /\ n_calls' = n_calls + 1
                     /\ ~last_call'.raised
                     /\ last_call'.adds = <<>> )
       /\ (IsCall("add_recommendation") /\ StillEmpty)
          => ( /\ ~last_call'.raised
            /\ last_call'.adds = <<>>
            /\ tracks' = last_call'.before.tracks
            /\ remaining_tracks' = last_call'.before.remaining_tracks
            /\ suggested_tracks' = last_call'.before.suggested_tracks
            /\ pushed' = pushed
            /\ (last_call'.request # NoRequest)
                 <=> ( /\ last_call'.before.can_request_new
                       /\ HasAnyQobuzTracks(last_call'.before.tracks) ) )]_vars
\* An empty batch came back for a mirror with a provider track after an
\* earlier recommendation was served: the call returned and changed nothing
\* but can_request_new.
C21_Witness ==
    /\ last_call.op = "add_recommendation"
    /\ last_call.typed
    /\ last_call.fetched = [status |-> "ok", ids |-> <<>>]
    /\ ~last_call.raised
    /\ last_call.adds = <<>>
    /\ HasAnyQobuzTracks(tracks)
    /\ remaining_tracks = <<>>
    /\ suggested_tracks # {}
    /\ ~can_request_new

\* What the reporter and the sender hold, and the four fields of the engine.
PluginState ==
    <<current_track_id, last_report_time, mqueue, enqueued, posted, n_attempts,
      isRunning, tracks, remaining_tracks, suggested_tracks, can_request_new>>

\* C22: each of the four subscribed handlers, called with a payload that is
\* not of the type it expects, returns at its isinstance test, without
\* raising and without running another statement, whatever the other threads
\* are doing: the step changes neither current_track_id, last_report_time,
\* the delivery queue and what was POSTed, nor tracks, remaining_tracks,
\* suggested_tracks and can_request_new; no call of on_state_changed stands
\* at a later statement with such a payload; and a mistyped call to an
\* autoplay handler made while no other is in progress POSTs no batch
\* request and calls PlayQueue.add not at all.
C22_WrongTypeIgnored ==
    [][/\ (n_events' = n_events + 1 /\ last_event'.event.type # "StateChangedEvent")
          => ( /\ ~last_event'.raised
               /\ last_event'.puts = <<>>
               /\ n_raised' = n_raised
               /\ UNCHANGED PluginState
               /\ \E t \in Threads :
                     /\ call[t].pc \in {"idle", "done"}
                     /\ call'[t].pc = "done"
                     /\ call'[t].event = last_event'.event )
       /\ \A t \in Threads :
             (call'[t].pc \notin {"idle", "done"})
             => (call'[t].event.type = "StateChangedEvent")
       /\ (n_calls' = n_calls + 1 /\ \A t \in Threads : acall'[t].pc = acall[t].pc)
          => ( /\ ~last_call'.raised
               /\ UNCHANGED PluginState
               /\ serial' => ( /\ ~last_call'.typed
                               /\ last_call'.request = NoRequest
                               /\ last_call'.adds = <<>> ) )
       /\ (n_calls' = n_calls + 1 /\ serial' /\ ~last_call'.typed)
          => \A t \in Threads : acall'[t].pc = acall[t].pc]_vars
\* The reporter tracked a track, the mirror held a provider track and a
\* refill was allowed when add_recommendation was called with a
\* StateChangedEvent: it did nothing.
C22_Witness ==
    /\ serial
    /\ last_call.op = "add_recommendation"
    /\ ~last_call.typed
    /\ HasAnyQobuzTracks(tracks)
    /\ remaining_tracks = <<>>
    /\ can_request_new
    /\ current_track_id = SetupTrackId
    /\ n_calls = 2
    /\ n_events = 1

\* The mirror ts without the entries at the positions listed (counted from
\* 0, as positions of ts), the other entries in their order.
WithoutPositions(ts, indices) ==
    LET RECURSIVE From(_)
        From(i) == IF i > Len(ts) THEN <<>>
                   ELSE IF (i - 1) \in Range(indices) THEN From(i + 1)
                   ELSE <<ts[i]>> \o From(i + 1)
    IN  From(1)

\* C23 as stated: a remove_tracks call with a TracksRemovedEvent listing
\* distinct positions of the mirror, in any order, leaves the mirror as it
\* was before the event less exactly the entries at those positions, the
\* other entries in their original order.
C23_Original ==
    [][( /\ IsCall("remove_tracks")
         /\ ValidPositions(last_call'.indices, last_call'.before.tracks) )
       => tracks' = WithoutPositions(last_call'.before.tracks, last_call'.indices)]_vars

\* C24: no statement of an add_recommendation call up to the POST of line
\* 110 writes tracks, remaining_tracks, suggested_tracks or can_request_new
\* or calls PlayQueue.add, and a POST that fails (it raises or its response
\* cannot be read) ends the call there with the exception, in every
\* interleaving of the handler calls. So when no other handler call runs
\* during the call, the call raises, PlayQueue.add is not called, and the
\* four fields keep the values they had before the call.
C24_FailedFetchPropagates ==
    [][/\ \A t \in Threads :
             /\ (Stepped(t) /\ acall[t].pc \in {"l72", "l73", "l85", "l94", "l110"})
                => ( /\ FieldsKept
                     /\ pushed' = pushed )
             /\ (Stepped(t) /\ acall[t].pc = "l110")
                => IF acall'[t].pc = "idle"
                   THEN /\ n_calls' = n_calls + 1
                        /\ last_call'.raised
                        /\ last_call'.adds = <<>>
                   ELSE /\ acall'[t].pc = "l123"
                        /\ acall'[t].fetched.status = "ok"
       /\ (IsCall("add_recommendation") /\ last_call'.fetched.status = "failed")
          => ( /\ last_call'.raised
            /\ last_call'.request # NoRequest
            /\ last_call'.adds = <<>>
            /\ pushed' = pushed
            /\ tracks' = last_call'.before.tracks
            /\ remaining_tracks' = last_call'.before.remaining_tracks
            /\ suggested_tracks' = last_call'.before.suggested_tracks
            /\ can_request_new' = last_call'.before.can_request_new )]_vars
\* A fetch failed after an earlier batch was served and the queue changed:
\* suggested_tracks kept its id and a refill is still allowed.
C24_Witness ==
    /\ last_call.op = "add_recommendation"
    /\ last_call.fetched = FailedResponse
    /\ last_call.raised
    /\ last_call.request # NoRequest
    /\ suggested_tracks # {}
    /\ remaining_tracks = <<>>
    /\ can_request_new

\* What handling first and then second, one call after the other, leaves
\* from an idle reporter with the cache c: the kinds of the messages put, in
\* order, and the final current_track_id (neither depends on the clock).
SerialRun(first, second, c) ==
    LET clk == Ns(19999999, 999999999)
        r1 == OnStateChangedResult(first, None, Zero, c, clk, clk, 1)
        r2 == OnStateChangedResult(second, r1.current_track_id, r1.last_report_time,
                                   c, clk, clk, 1 + Len(r1.puts))
    IN  [kinds |-> Kinds(r1.puts \o r2.puts), current_track_id |-> r2.current_track_id]
\* Two on_state_changed calls, one on each thread, are all the host has
\* called, and both have returned.
BothReturned ==
    /\ \A t \in Threads : call[t].pc = "done"
    /\ n_events = 2
    /\ n_calls = 0
    /\ shutdown_pc = "idle"
    /\ call[Caller].pc = "idle"
AsOneAfterTheOther ==
    \E a, b \in Threads :
        /\ a # b
        /\ [kinds |-> Kinds(enqueued), current_track_id |-> current_track_id]
             = SerialRun(call[a].event, call[b].event, cache)

\* C25 as stated: when two on_state_changed calls have run on different
\* threads, overlapping or not, the messages enqueued and the final
\* current_track_id are those of handling the two notifications one after
\* the other in some order (stated here for two notifications of the same
\* event and a reporter that was idle before the two calls).
C25_Original ==
    (BothReturned /\ call[1].event = call[2].event) => AsOneAfterTheOther

\* The step being taken ends a call of on_state_changed.
Notified == n_events' = n_events + 1
\* current_track_id when that call was made.
Tracked == last_event'.cur0
\* That call put exactly one report on the queue, of kind k, the last report
\* of the queue.
PutOne(k) ==
    /\ last_event'.puts = <<k>>
    /\ Reports(enqueued') # <<>>
    /\ Kind(Reports(enqueued')[Len(Reports(enqueued'))]) = k
Stopping(e) == e.type = "StateChangedEvent" /\ e.state \in {"STOPPED", "PAUSED", "ERROR"}

\* C26: while the reporter tracks a provider track t that is in the cache,
\* each PLAYING notification for t puts exactly one End(t) and no Start on
\* the queue and leaves the reporter tracking t, however often it is
\* repeated; a STOPPED, PAUSED or ERROR notification then puts one more
\* End(t) and leaves the reporter idle. No such call raises. (The
\* notifications come one after the other; the sender, shutdown(), a
\* get_last_duration() called from outside and get_track_url run between
\* their statements.)
C26_SameTrackEndsAgain ==
    [][(Notified /\ Tracked # None /\ Tracked \in last_event'.cache0)
       => ( /\ last_event'.event = Playing(Tracked)
               => ( /\ PutOne(EndOf(Tracked))
                    /\ current_track_id' = Tracked
                    /\ ~last_event'.raised )
            /\ Stopping(last_event'.event)
               => ( /\ PutOne(EndOf(Tracked))
                    /\ current_track_id' = None
                    /\ ~last_event'.raised ) )]_vars
\* PLAYING(t) twice, then a stop: Start(t), the End(t) of the repeated
\* PLAYING and the End(t) of the stop.
C26_Witness ==
    /\ n_events = 3
    /\ Kinds(Reports(enqueued))
          = <<StartOf(SetupTrackId), EndOf(SetupTrackId), EndOf(SetupTrackId)>>
    /\ Stopping(last_event.event)
    /\ last_event.puts = <<EndOf(SetupTrackId)>>
    /\ current_track_id = None

\* A notification that ends tracking: STOPPED, PAUSED, ERROR, or PLAYING with
\* no track or with a track of another source.
EndsTracking(e) ==
    \/ Stopping(e)
    \/ /\ e.type = "StateChangedEvent"
       /\ e.state = "PLAYING"
       /\ (e.track = NoTrack \/ e.track.source # "qobuz")

\* C27 as stated: a notification that is STOPPED, PAUSED, ERROR, or PLAYING
\* with no track or a track of another source always leaves the reporter
\* idle and never puts a Start on the queue; when the reporter tracked a
\* track t that is in the cache, it puts exactly one End(t); when the
\* reporter was idle, it puts nothing.
C27_Original ==
    [][(Notified /\ EndsTracking(last_event'.event))
       => ( /\ current_track_id' = None
            /\ \A i \in DOMAIN last_event'.puts :
                 last_event'.puts[i][1] # EndpointStart
            /\ (Tracked # None /\ Tracked \in last_event'.cache0)
               => PutOne(EndOf(Tracked))
            /\ (Tracked = None)
               => ( /\ last_event'.puts = <<>>
                    /\ enqueued' = enqueued ) )]_vars

\* C28: as long as shutdown() is not called, the sender catches up with the
\* queue again and again: however far a run has got, a state follows in
\* which every report enqueued so far has been dequeued and its POST was
\* issued and has returned or raised. As the reports are taken in the order
\* they were put, every report enqueued is eventually given its delivery
\* attempt, whatever the earlier attempts ended with and wherever the worker
\* stood when the report was put (FairSpec: the worker is scheduled, every
\* POST returns or raises, every sleep ends).
C28_EveryReportAttempted ==
    []<>(shutdown_pc # "idle" \/ n_attempts = Len(Reports(enqueued)))
\* The POST of the first report raised; the worker slept, took the second
\* report, put while it was posting or sleeping, and is posting it.
C28_Witness ==
    /\ shutdown_pc = "idle"
    /\ last_outcome = "exception"
    /\ n_attempts = 1
    /\ Len(posted) = 2
    /\ worker_pc = "post"
    /\ mqueue = <<>>

\* C29 as stated: in every state reached by add_tracks, remove_tracks and
\* add_recommendation events, whatever positions the remove_tracks events
\* carry, a mirror without provider track comes with remaining_tracks and
\* suggested_tracks both empty.
C29_Original ==
    (serial /\ Running = {} /\ ~HasAnyQobuzTracks(tracks))
    => (remaining_tracks = <<>> /\ suggested_tracks = {})

\* C30 as stated: an add_recommendation call in which the track lookup or
\* PlayQueue.add raises leaves remaining_tracks and suggested_tracks as they
\* were before the call, so that the id is still the head of
\* remaining_tracks for a later call (stated for calls that found
\* remaining_tracks non-empty and made no batch fetch).
C30_Original ==
    [][( /\ IsCall("add_recommendation")
         /\ last_call'.raised
         /\ last_call'.request = NoRequest )
       => ( /\ remaining_tracks' = last_call'.before.remaining_tracks
            /\ suggested_tracks' = last_call'.before.suggested_tracks )]_vars

====
